---- MODULE Spec2Model ----
(***************************************************************************)
(* Request orchestration of the inceptra server: the daily quota           *)
(* middleware (middleware/rateLimit.ts), the three generation routes with  *)
(* their provider fallback loops (routes/image.ts, routes/bgRemove.ts,     *)
(* routes/resume.ts) and the GenerationHistory table they append to.       *)
(*                                                                         *)
(* A request is a chain of express middleware; every `await` of the chain  *)
(* is a point where other requests may run, so one action of the model is  *)
(* the code between two awaits on shared state (the database) or on the    *)
(* provider race.                                                          *)
(***************************************************************************)
EXTENDS Integers, Sequences, FiniteSets, TLC

VARIABLES users, history, now, req, nStarted, qry

vars == <<users, history, now, req, nStarted, qry>>

-----------------------------------------------------------------------------
(* Bounds of the model *)

\* requests started in one behaviour
MaxRequests == 2
\* last clock tick of a behaviour
MaxNow == 2
\* clock ticks in one UTC day (the code: 24 * 60 * 60 * 1000 ms)
TicksPerDay == 2
\* quanta a request is followed past the sum of its feature's timeouts
MaxOverrun == 1

Users == {"u1", "u2"}

\* request slots: requests that may be in flight at the same time
Reqs == {1, 2}

\* the slot of the behaviours in which requests follow one another
SeqReqs == {1}

-----------------------------------------------------------------------------
(* Configuration tables of the source *)

FREE_LIMITS ==
  ("article-generator" :> 10) @@ ("image-generator" :> 10) @@
  ("background-remover" :> 10) @@ ("resume-analyzer" :> 10)

\* the slots of a burst: BurstSize requests in flight together, enough to
\* fill a day's quota from one record below the limit, and one request
\* that follows them
BurstSize == FREE_LIMITS["image-generator"] + 1
BurstReqs == 1..(BurstSize + 1)

\* a feature name with no entry in FREE_LIMITS, as enforceDailyLimit(feature)
\* may be given one; next() then leads to a handler outside this model
UnlistedFeature == "video-generator"

\* the routes of src/ that mount enforceDailyLimit(feature)
Features == {"image-generator", "background-remover", "resume-analyzer"}

ImageModels ==
  << [model |-> "black-forest-labs/FLUX.1-dev", timeout |-> 90000],
     [model |-> "stabilityai/stable-diffusion-xl-base-1.0", timeout |-> 75000],
     [model |-> "runwayml/stable-diffusion-v1-5", timeout |-> 60000] >>

BgModels ==
  << [model |-> "briaai/RMBG-2.0", timeout |-> 60000],
     [model |-> "CIDAS/clipseg-rd64-refined", timeout |-> 60000],
     [model |-> "rembg/rembg", timeout |-> 60000] >>

ResumeModels ==
  << [model |-> "deepseek-ai/DeepSeek-R1-0528", timeout |-> 45000],
     [model |-> "meta-llama/Llama-3.1-8B-Instruct", timeout |-> 40000],
     [model |-> "microsoft/DialoGPT-medium", timeout |-> 35000] >>

Models(f) ==
  CASE f = "image-generator" -> ImageModels
    [] f = "background-remover" -> BgModels
    [] OTHER -> ResumeModels

RECURSIVE Gcd(_, _)
Gcd(a, b) == IF b = 0 THEN a ELSE Gcd(b, a % b)

RECURSIVE GcdOfTimeouts(_)
GcdOfTimeouts(ms) ==
  IF ms = <<>> THEN 0 ELSE Gcd(Head(ms).timeout, GcdOfTimeouts(Tail(ms)))

\* the quantum of request time, in ms: the timeouts are whole multiples of it
Quantum == GcdOfTimeouts(ImageModels \o BgModels \o ResumeModels)

\* mutant: every timer runs one quantum late
TimerTicks_Late(f, i) == Models(f)[i].timeout \div Quantum + 1

\* setTimeout(..., modelConfig.timeout), in quanta
TimerTicks(f, i) == Models(f)[i].timeout \div Quantum

RECURSIVE SumOfTimeouts(_)
SumOfTimeouts(ms) == IF ms = <<>> THEN 0 ELSE Head(ms).timeout + SumOfTimeouts(Tail(ms))

\* the sum of the timeouts configured for feature f, in quanta
SumTimeouts(f) == SumOfTimeouts(Models(f)) \div Quantum

-----------------------------------------------------------------------------
(* Errors: what the handlers read of a thrown value is its message and     *)
(* its response.status (0: the error carries no response).                 *)

Err(m, s) == [message |-> m, status |-> s]

NoError == Err("", -1)

TimeoutError == Err("Request timeout", 0)

AllFailedError == Err("All models failed", 0)

UnsupportedError == Err("Unsupported response format from HuggingFace API", 0)

EmptyImageError == Err("Empty or invalid image data received", 0)

StorageError == Err("prisma create failed", 0)

\* what a provider call may reject with
ProviderErrors == { Err("provider error", s) : s \in {0, 402, 429} }

\* raw texts of provider failures: plain, naming a model, and two that
\* read like the texts the handlers look for
RawTexts ==
  { "provider error", "Model black-forest-labs/FLUX.1-dev is overloaded",
    "Request timeout", "upstream: Unsupported response format" }

\* provider failures of any raw text and response status
RawErrors == { Err(t, s) : t \in RawTexts, s \in {0, 402, 429, 500} }

-----------------------------------------------------------------------------
(* Provider payloads: kind is what typeof / instanceof see, data the bytes *)
(* or text carried.                                                        *)

\* the fields the normalisers probe on an object, and "png" for a field
\* they do not know
FieldNames == {"data", "buffer", "base64", "image", "mask", "0", "png"}

\* the value of a field: absent, a string (bare base64, or "datauri": with
\* a data-URI prefix), "bytes" (a Buffer or ArrayBuffer), "other" (a number
\* or a plain object), "withMask" (an object whose mask is a string)
FieldVal(t, d) == [type |-> t, data |-> d]

Absent == FieldVal("absent", "")

NoFields == [n \in FieldNames |-> Absent]

\* uri: the text starts with a data-URI prefix (strings only)
Payload(k, u, d) ==
  [kind |-> k, uri |-> u, data |-> d,
   fields |-> IF k = "object" THEN NoFields ELSE <<>>]

\* an object with the fields fs
Obj(fs) == [kind |-> "object", uri |-> FALSE, data |-> "", fields |-> fs]

Undefined == Payload("undefined", FALSE, "")

\* "object": an object exposing none of the fields the handlers probe
ProviderPayloads(f) ==
  CASE f = "image-generator" ->
         { Undefined, Payload("string", FALSE, "imgA"), Payload("blob", FALSE, "imgA"),
           Payload("blob", FALSE, "imgB"), Payload("blob", FALSE, ""),
           Payload("object", FALSE, "") }
    [] f = "background-remover" ->
         { Undefined, Payload("blob", FALSE, "maskA"), Payload("string", TRUE, "maskB"),
           Payload("string", FALSE, "junk"), Payload("object", FALSE, "") }
    [] OTHER ->
         { Undefined, Payload("completion", FALSE, "textA"),
           Payload("completion", FALSE, "textB"), Payload("completion", FALSE, "") }

\* objects a text-to-image call may return: any of the four fields of
\* convertToBase64 present or not, as a string or as something else
ImageObjects ==
  { Obj([NoFields EXCEPT !["data"] = d, !["buffer"] = b, !["base64"] = c, !["image"] = i]) :
      d \in {Absent, FieldVal("string", "imgD"), FieldVal("bytes", "imgD")},
      b \in {Absent, FieldVal("bytes", "imgA"), FieldVal("other", "")},
      c \in {Absent, FieldVal("string", "imgC")},
      i \in {Absent, FieldVal("datauri", "imgI"), FieldVal("other", "")} }

\* objects a segmentation call may return: the fields of the mask extraction
MaskObjects ==
  { Obj([NoFields EXCEPT !["mask"] = m, !["image"] = i, !["0"] = z, !["png"] = x]) :
      m \in {Absent, FieldVal("datauri", "maskB"), FieldVal("bytes", "maskA")},
      i \in {Absent, FieldVal("string", "maskB")},
      z \in {Absent, FieldVal("string", "maskB"), FieldVal("withMask", "maskB"),
             FieldVal("other", "")},
      x \in {Absent, FieldVal("string", "maskB")} }

\* the payloads of ProviderPayloads and the objects above
ShapedPayloads(f) ==
  CASE f = "image-generator" ->
         ProviderPayloads(f) \cup {Payload("arraybuffer", FALSE, "imgA")} \cup ImageObjects
    [] f = "background-remover" ->
         ProviderPayloads(f) \cup MaskObjects
           \cup {Payload("string", TRUE, "data:image/png;base64,maskB")}
    [] OTHER -> ProviderPayloads(f)

\* JavaScript truthiness of the awaited value
Truthy(p) ==
  CASE p.kind = "undefined" -> FALSE
    [] p.kind = "string" -> p.data # ""
    [] OTHER -> TRUE

-----------------------------------------------------------------------------
(* Response normalisation *)

DataUriPrefix == "data:image/png;base64,"

\* the text of a string payload
Text(p) == IF p.uri THEN DataUriPrefix \o p.data ELSE p.data

\* Buffer.from(bytes).toString("base64")
B64(d) == IF d = "" THEN "" ELSE "b64(" \o d \o ")"

Ok(v) == [ok |-> TRUE, value |-> v, err |-> NoError]

Thrown(e) == [ok |-> FALSE, value |-> "", err |-> e]

\* typeof v === 'string'
IsString(v) == v.type \in {"string", "datauri"}

\* the text of a string field
FieldText(v) == IF v.type = "datauri" THEN DataUriPrefix \o v.data ELSE v.data

\* Buffer.from(x) throws for a number or a plain object
BufferTypeError ==
  Err("The first argument must be of type string or an instance of Buffer", 0)

\* mutant: a string is encoded once more
convertToBase64_Reencodes(p) ==
  IF p.kind = "string" THEN Ok(B64(Text(p))) ELSE Thrown(UnsupportedError)

convertToBase64(p) ==
  LET fs == p.fields IN
  CASE p.kind = "string" -> Ok(Text(p))
    [] p.kind = "blob" -> Ok(B64(p.data))
    [] p.kind = "arraybuffer" -> Ok(B64(p.data))
    [] p.kind = "object" ->
         IF IsString(fs["data"]) THEN Ok(FieldText(fs["data"]))
         ELSE IF fs["buffer"].type # "absent"
           THEN (IF fs["buffer"].type = "bytes" THEN Ok(B64(fs["buffer"].data))
                 ELSE IF IsString(fs["buffer"]) THEN Ok(B64(FieldText(fs["buffer"])))
                 ELSE Thrown(BufferTypeError))
         ELSE IF IsString(fs["base64"]) THEN Ok(FieldText(fs["base64"]))
         ELSE IF IsString(fs["image"]) THEN Ok(FieldText(fs["image"]))
         ELSE Thrown(UnsupportedError)
    [] OTHER -> Thrown(UnsupportedError)

\* image.ts: convertToBase64, then the empty-data check
NormalizeImage(p) ==
  LET c == convertToBase64(p) IN
  IF ~c.ok THEN c
  ELSE IF c.value = "" THEN Thrown(EmptyImageError)
  ELSE c

\* x.replace(...) where x is no string
ReplaceTypeError == Err("maskResult.mask.replace is not a function", 0)

\* v.replace(/^data:image\/[^;]+;base64,/, ''): the text without its prefix
Stripped(v) == IF IsString(v) THEN Ok(v.data) ELSE Thrown(ReplaceTypeError)

\* JSON.stringify(maskResult).match(/"([A-Za-z0-9+/=]{100,})"/): a string of
\* bare base64 under any key; the texts of the model count as long enough
ScanMatches(fs) == {n \in FieldNames : fs[n].type = "string"}

\* bgRemove.ts step 3: the mask as bare base64
ExtractMask(p) ==
  LET fs == p.fields IN
  CASE p.kind = "blob" -> Ok(B64(p.data))
    [] p.kind = "string" -> Ok(p.data)
    [] p.kind = "object" ->
         IF fs["mask"].type # "absent" THEN Stripped(fs["mask"])
         ELSE IF fs["image"].type # "absent" THEN Stripped(fs["image"])
         ELSE IF fs["0"].type # "absent"
           THEN (IF IsString(fs["0"]) \/ fs["0"].type = "withMask" THEN Ok(fs["0"].data)
                 ELSE Thrown(Err("Could not extract mask from numeric key response", 0)))
         ELSE IF ScanMatches(fs) # {}
           THEN Ok(fs[CHOOSE n \in ScanMatches(fs) : TRUE].data)
         ELSE Thrown(Err("Could not extract mask from segmentation result", 0))
    [] OTHER -> Thrown(Err("Could not extract mask from segmentation result", 0))

\* masks sharp can decode and join as an alpha channel
DecodableMasks == {"maskB", B64("maskA")}

\* bgRemove.ts steps 3 to 6: extract the mask, composite, re-encode
NormalizeMask(p) ==
  LET m == ExtractMask(p) IN
  IF ~m.ok THEN m
  ELSE IF m.value \notin DecodableMasks THEN Thrown(Err("sharp: unsupported image format", 0))
  ELSE Ok(B64("png+" \o m.value))

\* resume.ts: completion.choices?.[0]?.message?.content || fallback
NormalizeCompletion(p) ==
  IF p.kind = "completion" /\ p.data # "" THEN Ok(p.data) ELSE Ok("No analysis returned.")

Normalize(f, p) ==
  CASE f = "image-generator" -> NormalizeImage(p)
    [] f = "background-remover" -> NormalizeMask(p)
    [] OTHER -> NormalizeCompletion(p)

-----------------------------------------------------------------------------
(* The message of the 500 response each route's outer catch builds *)

\* err.message.includes('Unsupported response format'), over the texts of
\* the model
MentionsUnsupported(m) ==
  m \in {UnsupportedError.message, "upstream: Unsupported response format"}

ImageErrorMessage(e) ==
  IF e.message = "Request timeout" THEN "Image generation timed out. Please try again."
  ELSE IF e.status = 429 THEN "Rate limit exceeded. Please try again later."
  ELSE IF MentionsUnsupported(e.message)
    THEN "Image generation service temporarily unavailable."
  ELSE "Image generation failed"

BgErrorMessage(e) ==
  IF e.message = "Request timeout" THEN "Image processing timed out. Please try again."
  ELSE IF e.status = 429 THEN "Rate limit exceeded. Please try again later."
  ELSE "Failed to process image."

ResumeErrorMessage(e) ==
  IF e.message = "Request timeout" THEN "Resume analysis timed out. Please try again."
  ELSE IF e.status = 429 THEN "Rate limit exceeded. Please try again later."
  ELSE "Resume analysis failed. Try again later."

ErrorMessage(f, e) ==
  CASE f = "image-generator" -> ImageErrorMessage(e)
    [] f = "background-remover" -> BgErrorMessage(e)
    [] OTHER -> ResumeErrorMessage(e)

-----------------------------------------------------------------------------
(* Quota middleware: middleware/rateLimit.ts *)

\* mutant: the window never moves on from the first day
StartOfDay_NoReset(t) == 0

\* startOfDay.setUTCHours(0, 0, 0, 0)
StartOfDay(t) == t - (t % TicksPerDay)

\* mutant: the count is taken over all features of the user
CountSince_AnyFeature(h, u, f, since) ==
  Cardinality({ i \in 1..Len(h) : h[i].userId = u /\ h[i].createdAt >= since })

\* prisma.generationHistory.count({ where: { userId, feature, createdAt: { gte } } })
CountSince(h, u, f, since) ==
  Cardinality({ i \in 1..Len(h) :
                  /\ h[i].userId = u
                  /\ h[i].feature = f
                  /\ h[i].createdAt >= since })

UsageToday(u, f) == CountSince(history, u, f, StartOfDay(now))

\* mutant: a feature without an entry gets the limit of the others
LimitOf_DefaultTen(f) == IF f \in DOMAIN FREE_LIMITS THEN FREE_LIMITS[f] ELSE 10

\* FREE_LIMITS[feature] ?? 0
LimitOf(f) == IF f \in DOMAIN FREE_LIMITS THEN FREE_LIMITS[f] ELSE 0

\* mutant: the premium test is gone
PremiumBypass_Never(user) == FALSE

\* if (user.isPremium) return next()
PremiumBypass(user) == user.isPremium

\* mutant: off by one, the request at the limit passes
QuotaDenied_OffByOne(count, limit) == count > limit

\* if (count >= limit) return res.status(429)
QuotaDenied(count, limit) == count >= limit

\* the 429 body (the limit's digits are left out of the text)
QuotaMessage(f) ==
  "Free limit per day reached for " \o f \o ". Upgrade to Premium for unlimited access."

-----------------------------------------------------------------------------
(* Requests *)

\* request bodies of POST /api/image: the prompt, as its characters
Prompts == { <<>>, <<"a", "b">>, <<" ", "a", "b", " ">>, <<" ", "c", "a", "t">> }

\* uploads of POST /api/bg-remove and POST /api/resume:
\*   none: no file part; rejected: multer's fileFilter or size limit refuses it;
\*   corrupt: sharp / pdfjs cannot read it; short: a PDF with under 100
\*   characters of text; ok: a usable file
Files == {"none", "rejected", "corrupt", "short", "ok"}

\* the bodies a request on feature f may carry
PromptsOf(f) == IF f = "image-generator" THEN Prompts ELSE {<<>>}

FilesOf(f) ==
  CASE f = "image-generator" -> {""}
    [] f = "background-remover" -> Files \ {"short"}
    [] OTHER -> Files

RECURSIVE TrimLeft(_)
TrimLeft(s) == IF s # <<>> /\ Head(s) = " " THEN TrimLeft(Tail(s)) ELSE s

RECURSIVE TrimRight(_)
TrimRight(s) ==
  IF s # <<>> /\ s[Len(s)] = " " THEN TrimRight(SubSeq(s, 1, Len(s) - 1)) ELSE s

\* String.prototype.trim
Trim(s) == TrimRight(TrimLeft(s))

\* mutant: the length is taken without trimming
PromptRejected_NoTrim(prompt) == prompt = <<>> \/ Len(prompt) < 3

\* if (!prompt || prompt.trim().length < 3)
PromptRejected(prompt) == prompt = <<>> \/ Len(Trim(prompt)) < 3

IdleReq ==
  [ pc |-> "idle", userId |-> "", feature |-> "", token |-> FALSE,
    prompt |-> <<>>, file |-> "",
    startOfDay |-> -1, count |-> -1, idx |-> 0, lastError |-> NoError, result |-> Undefined,
    output |-> "", attempts |-> <<>>, outcomes |-> <<>>,
    status |-> 0, body |-> "", created |-> <<>>, losers |-> {},
    elapsed |-> 0, waited |-> 0 ]

\* res.status(st).json(...): the request has its response
Respond(rq, st, body) == [rq EXCEPT !.pc = "done", !.status = st, !.body = body]

\* mutant: the catch hands the error's own text to the caller
Fail_Leaks(rq, e) == Respond(rq, 500, e.message)

\* the route's outer catch: res.status(500).json({ error: errorMessage })
Fail(rq, e) == Respond(rq, 500, ErrorMessage(rq.feature, e))

\* one iteration of the loop begins: the provider call is started, the timer
\* armed, and the handler awaits Promise.race
StartCall(rq, i) ==
  [rq EXCEPT !.pc = "race", !.idx = i, !.attempts = Append(@, i), !.elapsed = 0]

\* mutant: the error kept from the loop is dropped
AfterLoop_AllFailed(rq) ==
  IF ~Truthy(rq.result)
  THEN Fail(rq, AllFailedError)
  ELSE LET n == Normalize(rq.feature, rq.result) IN
       IF n.ok THEN [rq EXCEPT !.pc = "create", !.output = n.value]
       ELSE Fail(rq, n.err)

\* mutant: a payload that fails normalisation is recorded all the same
AfterLoop_RecordAnyway(rq) ==
  IF ~Truthy(rq.result)
  THEN Fail(rq, IF rq.lastError # NoError THEN rq.lastError ELSE AllFailedError)
  ELSE [rq EXCEPT !.pc = "create", !.output = Normalize(rq.feature, rq.result).value]

\* the code after the loop, up to the await of generationHistory.create
AfterLoop(rq) ==
  IF ~Truthy(rq.result)
  THEN Fail(rq, IF rq.lastError # NoError THEN rq.lastError ELSE AllFailedError)
  ELSE LET n == Normalize(rq.feature, rq.result) IN
       IF n.ok THEN [rq EXCEPT !.pc = "create", !.output = n.value]
       ELSE Fail(rq, n.err)

\* mutant: every error moves on to the next model
Retryable_Always(f, e) == TRUE

\* catch of the loop body: retry the next model on these errors
Retryable(f, e) ==
  IF f = "background-remover" THEN e.status = 402
  ELSE e.message = "Request timeout" \/ e.status = 402

\* mutant: the loop passes over a model
NextCandidate_Skip(i) == i + 2

\* mutant: the loop does not advance
NextCandidate_Same(i) == i

\* for (const modelConfig of models): the candidate after candidate i
NextCandidate(i) == i + 1

\* the console log of one attempt: how the race of candidate idx settled
\*   resolved: the call returned payload; rejected: the call threw err;
\*   timeout: the timer threw err
Outcome(k, e, p) == [kind |-> k, err |-> e, payload |-> p]

\* the promise of candidate i that lost its race and is still pending:
\* the timer when the call settled first, the call when the timer fired
Loser(i, k) == [idx |-> i, kind |-> IF k = "timeout" THEN "call" ELSE "timer"]

\* mutant: a payload that cannot be used sends the loop to the next model
OnResolve_TryNext(rq, p) ==
  LET r1 == [rq EXCEPT !.result = p,
                       !.outcomes = Append(@, Outcome("resolved", NoError, p)),
                       !.losers = @ \cup {Loser(rq.idx, "resolved")}] IN
  IF (~Truthy(p) \/ ~Normalize(rq.feature, p).ok) /\ rq.idx < Len(Models(rq.feature))
  THEN StartCall(r1, NextCandidate(rq.idx))
  ELSE AfterLoop(r1)

\* the race settled with a value: break
OnResolve(rq, p) ==
  AfterLoop([rq EXCEPT !.result = p,
                       !.outcomes = Append(@, Outcome("resolved", NoError, p)),
                       !.losers = @ \cup {Loser(rq.idx, "resolved")}])

\* the race settled with an error, the provider's (k = "rejected") or the
\* timer's (k = "timeout"): continue on a retryable error, else break
OnReject(rq, k, e) ==
  LET r1 == [rq EXCEPT !.lastError = e,
                       !.outcomes = Append(@, Outcome(k, e, Undefined)),
                       !.losers = @ \cup {Loser(rq.idx, k)}] IN
  IF Retryable(rq.feature, e) /\ rq.idx < Len(Models(rq.feature))
  THEN StartCall(r1, NextCandidate(rq.idx))
  ELSE AfterLoop(r1)

\* the route handler from its entry to its first await on a provider race
ImageHandler(rq) ==
  IF PromptRejected(rq.prompt)
  THEN Respond(rq, 400, "Prompt must be at least 3 characters.")
  ELSE StartCall(rq, 1)

BgHandler(rq) ==
  CASE rq.file = "rejected" -> Respond(rq, 500, "Internal server error")
    [] rq.file = "none" -> Respond(rq, 422, "Image file is required.")
    [] rq.file = "corrupt" -> Fail(rq, Err("sharp: unsupported image format", 0))
    [] OTHER -> StartCall(rq, 1)

\* (the pictograph that opens the source's "No file uploaded." is left out)
ResumeHandler(rq) ==
  CASE rq.file = "rejected" -> Respond(rq, 500, "Internal server error")
    [] rq.file = "none" -> Respond(rq, 400, "No file uploaded.")
    [] rq.file = "corrupt" -> Fail(rq, Err("Failed to extract text from PDF", 0))
    [] rq.file = "short" -> Respond(rq, 400, "Resume too short or empty.")
    [] OTHER -> StartCall(rq, 1)

\* next() of enforceDailyLimit: the rest of the route's chain
EnterHandler(rq) ==
  CASE rq.feature = "image-generator" -> ImageHandler(rq)
    [] rq.feature = "background-remover" -> BgHandler(rq)
    [] rq.feature = "resume-analyzer" -> ResumeHandler(rq)
    [] OTHER -> [rq EXCEPT !.pc = "next"]

-----------------------------------------------------------------------------
(* The User table and the Stripe webhook *)

\* stripeId: null
NoSubscription == 0

\* create: { id: userId, email, isPremium: false }
NewUser ==
  [exists |-> TRUE, isPremium |-> FALSE, stripeId |-> NoSubscription, email |-> ""]

\* no row of the User table for this id
NoUser ==
  [exists |-> FALSE, isPremium |-> FALSE, stripeId |-> NoSubscription, email |-> ""]

\* the e-mail address of user u: the model takes the id for it
EmailOf(u) == u

\* typeof payload.email === "string" ? payload.email : "": the e-mail claim
\* of a verified token of user u; the model's tokens carry the claim
TokenEmail(u) == EmailOf(u)

\* a row of the User table written by an earlier sign-in of user u
KnownUser(u) == [NewUser EXCEPT !.email = EmailOf(u)]

\* an e-mail address user u had before the present one
StaleEmail(u) == "old-" \o u

\* mutant: the upsert writes the row anew
Upsert_Resets(user, email) == [NewUser EXCEPT !.email = email]

\* prisma.user.upsert({ where: { id }, create: { id, email, isPremium: false },
\* update: { email } })
Upsert(user, email) ==
  IF user.exists THEN [user EXCEPT !.email = email]
  ELSE [NewUser EXCEPT !.email = email]

\* the subscription checkouts Stripe reports: customer_email and the id of
\* the subscription created; u1 subscribes twice, u2 holds subscription 3,
\* subscription 4 was bought under an address no user has
Sessions ==
  { [email |-> "u1", subscription |-> 1], [email |-> "u1", subscription |-> 2],
    [email |-> "u2", subscription |-> 3], [email |-> "nobody", subscription |-> 4] }

\* the events posted to /webhook
StripeEvents ==
  {[type |-> "checkout.session.completed", email |-> x.email,
    subscription |-> x.subscription] : x \in Sessions}
  \cup {[type |-> "customer.subscription.deleted", email |-> "",
         subscription |-> x.subscription] : x \in Sessions}
  \cup {[type |-> "invoice.paid", email |-> "", subscription |-> 1]}

\* mutant: the cancellation clears the flag and keeps the stored id
Cancelled_KeepsId(user) == [user EXCEPT !.isPremium = FALSE]

\* data: { isPremium: false, stripeId: null }
Cancelled(user) == [user EXCEPT !.isPremium = FALSE, !.stripeId = NoSubscription]

\* data: { stripeId: subscriptionId, isPremium: true }
Subscribed(user, sub) == [user EXCEPT !.isPremium = TRUE, !.stripeId = sub]

-----------------------------------------------------------------------------
(* The history routes: GET /api/history and GET /api/history/usage *)

\* mutant: the history router's table is behind the middleware's
UsageLimits_Stale ==
  ("article-generator" :> 10) @@ ("image-generator" :> 12) @@
  ("background-remover" :> 10) @@ ("resume-analyzer" :> 10)

\* FREE_LIMITS of the history router, a table of its own
UsageLimits ==
  ("article-generator" :> 10) @@ ("image-generator" :> 10) @@
  ("background-remover" :> 10) @@ ("resume-analyzer" :> 10)

\* Object.keys(FREE_LIMITS) of the history router
UsageFeatures == DOMAIN UsageLimits

\* no ?cursor= in the query string
NoCursor == 0

\* the ?limit= values tried; 0 stands for an absent or non-numeric one
QueryLimits == {0, 1, 30}

\* the ?limit= query strings tried: absent, zero, negative, no number,
\* small, a whole table of one user, above the cap
LimitStrings == {"", "0", "-1", "abc", "1", "30", "60"}

\* Number(req.query.limit), NaN written as 0: NaN and 0 are both falsy
\* for the || that follows
NumberOf(str) ==
  CASE str = "-1" -> 0 - 1
    [] str = "1" -> 1
    [] str = "30" -> 30
    [] str = "60" -> 60
    [] OTHER -> 0

\* Math.min(Number(req.query.limit) || 20, 50)
PageLimit(q) ==
  LET n == IF q = 0 THEN 20 ELSE q IN
  IF n < 50 THEN n ELSE 50

\* a limit or a remainder of the usage report: 'Unlimited', or a number
Unlimited == [unlimited |-> TRUE, n |-> 0]

Amount(n) == [unlimited |-> FALSE, n |-> n]

\* mutant: the remainder is not clamped at 0
Remaining_Unclamped(limit, count) == limit - count

\* Math.max(0, limit - count)
Remaining(limit, count) == IF limit - count > 0 THEN limit - count ELSE 0

\* the one client of the history routes, between two of its queries
IdleQry ==
  [pc |-> "idle", kind |-> "", userId |-> "", token |-> FALSE,
   limit |-> 0, cursor |-> NoCursor, page |-> <<>>, totalCount |-> 0,
   nextCursor |-> NoCursor, hasNextPage |-> FALSE,
   startOfDay |-> 0, at |-> 0, pending |-> {},
   used |-> [f \in UsageFeatures |-> 0],
   limits |-> [f \in UsageFeatures |-> Amount(0)],
   remaining |-> [f \in UsageFeatures |-> Amount(0)],
   isPremium |-> FALSE, resetTime |-> 0, status |-> 0]

\* the rows of user u
RowsOf(h, u) == {h[i] : i \in {j \in 1..Len(h) : h[j].userId = u}}

\* every way to list the rows of S
RECURSIVE Listings(_)
Listings(S) ==
  IF S = {} THEN {<<>>}
  ELSE UNION {{<<x>> \o l : l \in Listings(S \ {x})} : x \in S}

\* orderBy: { createdAt: "desc" }: later timestamps first, rows of one
\* timestamp in any order the database likes
RECURSIVE OrderedByCreatedAtDesc(_)
OrderedByCreatedAtDesc(rows) ==
  IF rows = {} THEN {<<>>}
  ELSE LET top == CHOOSE s \in {x.stamp : x \in rows} :
                    \A x \in rows : x.stamp <= s
           same == {x \in rows : x.stamp = top} IN
       {a \o b : a \in Listings(same), b \in OrderedByCreatedAtDesc(rows \ same)}

\* cursor: { id: cursor }, skip: 1, take: limit, applied to the listing.
\* A positive take counts rows forward from the start or from behind the
\* cursor row; a negative take counts rows backward from the end or from
\* before the cursor row, and the rows come back in the listing's order.
\* A cursor that names no row of the listing gives no rows.
PageOf(listing, cursor, limit) ==
  LET n == Len(listing)
      at == {i \in 1..n : listing[i].id = cursor}
      pos == IF at = {} THEN 0 ELSE CHOOSE i \in at : TRUE
      from == IF limit >= 0
              THEN (IF cursor = NoCursor THEN 1 ELSE IF pos = 0 THEN n + 1 ELSE pos + 1)
              ELSE LET e == IF cursor = NoCursor THEN n ELSE pos - 1 IN
                   IF e + limit + 1 > 1 THEN e + limit + 1 ELSE 1
      to == IF limit >= 0
            THEN (IF from + limit - 1 < n THEN from + limit - 1 ELSE n)
            ELSE (IF cursor = NoCursor THEN n ELSE pos - 1) IN
  [i \in 1..(IF to >= from THEN to - from + 1 ELSE 0) |-> listing[from + i - 1].id]

-----------------------------------------------------------------------------
(* Initial state: the database as a deployment finds it. u1 is a free user  *)
(* and u2 a subscriber; u1 may already have records of today.               *)

\* a GenerationHistory row: id is its rank of insertion (the code: a cuid).
\* createdAt is the quantum of the clock the row was created in, stamp the
\* rank of its millisecond among the rows: two rows with one stamp carry the
\* same TIMESTAMP(3) value
Record(id, u, f, t) ==
  [id |-> id, userId |-> u, feature |-> f, createdAt |-> t, stamp |-> id]

UserFeatures == Users \X Features

\* the table holding n rows of every user and feature, all created at time 0
RECURSIVE Preloaded(_, _)
Preloaded(pairs, n) ==
  IF pairs = {} THEN <<>>
  ELSE LET uf == CHOOSE x \in pairs : TRUE
           rest == Preloaded(pairs \ {uf}, n) IN
       rest \o [i \in 1..n |-> Record(Len(rest) + i, uf[1], uf[2], 0)]

\* today's rows per user and feature at the start: none, one below the
\* free limit, or at the free limit
PreloadCounts == {0, FREE_LIMITS["image-generator"] - 1, FREE_LIMITS["image-generator"]}

Init ==
  /\ users = [u \in Users |->
       IF u = "u2" THEN [KnownUser(u) EXCEPT !.isPremium = TRUE, !.stripeId = 3]
       ELSE KnownUser(u)]
  /\ \E n \in PreloadCounts : history = Preloaded(UserFeatures, n)
  /\ now = 0
  /\ req = [r \in BurstReqs |-> IdleReq]
  /\ nStarted = 0
  /\ qry = IdleQry

-----------------------------------------------------------------------------
(* Actions *)

\* an HTTP POST arrives on the route of feature f; tok: its bearer token
\* verifies, and then names user u
StartRequest(r, u, f, tok, prompt, file) ==
  /\ req[r].pc = "idle"
  /\ nStarted' = nStarted + 1
  /\ req' = [req EXCEPT ![r] =
       [IdleReq EXCEPT !.pc = "auth", !.userId = IF tok THEN u ELSE "",
                       !.feature = f, !.token = tok,
                       !.prompt = prompt, !.file = file]]
  /\ UNCHANGED <<users, history, now, qry>>

\* requireAuth: verifyToken, then prisma.user.upsert
RequireAuth(r) ==
  LET rq == req[r] IN
  /\ rq.pc = "auth"
  /\ IF ~rq.token
     THEN /\ req' = [req EXCEPT ![r] = Respond(rq, 401, "Token verification failed")]
          /\ UNCHANGED users
     ELSE /\ users' = [users EXCEPT ![rq.userId] =
                 Upsert(@, TokenEmail(rq.userId))]
          /\ req' = [req EXCEPT ![r].pc = "quotaUser"]
  /\ UNCHANGED <<history, now, nStarted, qry>>

\* enforceDailyLimit up to its second await: findUnique resolved, the
\* premium test, startOfDay computed, the count query sent
QuotaFindUser(r) ==
  LET rq == req[r]
      user == users[rq.userId] IN
  /\ rq.pc = "quotaUser"
  /\ req' = [req EXCEPT ![r] =
       IF ~user.exists THEN Respond(rq, 401, "User not found.")
       ELSE IF PremiumBypass(user) THEN EnterHandler(rq)
       ELSE [rq EXCEPT !.pc = "quotaCount", !.startOfDay = StartOfDay(now)]]
  /\ UNCHANGED <<users, history, now, nStarted, qry>>

\* mutant: an admitted request reserves its slot by writing a record
QuotaCount_Reserves(r) ==
  LET rq == req[r]
      count == CountSince(history, rq.userId, rq.feature, rq.startOfDay)
      r1 == [rq EXCEPT !.count = count]
      denied == QuotaDenied(count, LimitOf(rq.feature)) IN
  /\ rq.pc = "quotaCount"
  /\ req' = [req EXCEPT ![r] =
       IF denied THEN Respond(r1, 429, QuotaMessage(rq.feature))
       ELSE EnterHandler(r1)]
  /\ history' = IF denied THEN history
                ELSE Append(history, Record(Len(history) + 1, rq.userId, rq.feature, now))
  /\ UNCHANGED <<users, now, nStarted, qry>>

\* enforceDailyLimit after the count query: 429, or next()
QuotaCount(r) ==
  LET rq == req[r]
      count == CountSince(history, rq.userId, rq.feature, rq.startOfDay)
      r1 == [rq EXCEPT !.count = count] IN
  /\ rq.pc = "quotaCount"
  /\ req' = [req EXCEPT ![r] =
       IF QuotaDenied(count, LimitOf(rq.feature))
       THEN Respond(r1, 429, QuotaMessage(rq.feature))
       ELSE EnterHandler(r1)]
  /\ UNCHANGED <<users, history, now, nStarted, qry>>

\* the provider call of the current candidate settles first, with a value
CallResolves(r, p) ==
  /\ req[r].pc = "race"
  /\ req' = [req EXCEPT ![r] = OnResolve(req[r], p)]
  /\ UNCHANGED <<users, history, now, nStarted, qry>>

\* the provider call of the current candidate settles first, with an error
CallRejects(r, e) ==
  /\ req[r].pc = "race"
  /\ req' = [req EXCEPT ![r] = OnReject(req[r], "rejected", e)]
  /\ UNCHANGED <<users, history, now, nStarted, qry>>

\* the timer of the current candidate fires first
TimerFires(r) ==
  /\ req[r].pc = "race"
  /\ req' = [req EXCEPT ![r] = OnReject(req[r], "timeout", TimeoutError)]
  /\ UNCHANGED <<users, history, now, nStarted, qry>>

\* prisma.generationHistory.create succeeds; the handler answers 200
CreateRecord(r) ==
  LET rq == req[r] IN
  /\ rq.pc = "create"
  /\ history' = Append(history,
       Record(Len(history) + 1, rq.userId, rq.feature, now))
  /\ req' = [req EXCEPT ![r] =
       Respond([rq EXCEPT !.created = Append(@, Len(history) + 1)], 200, rq.output)]
  /\ UNCHANGED <<users, now, nStarted, qry>>

\* prisma.generationHistory.create of request r succeeds within the
\* millisecond of the row written just before it by a request that was in
\* flight together with r: both rows carry one createdAt
CreateRecordSameMs(r) ==
  LET rq == req[r]
      prev == history[Len(history)] IN
  /\ rq.pc = "create"
  /\ Len(history) > 0
  /\ prev.createdAt = now
  /\ \E o \in DOMAIN req \ {r} :
       /\ req[o].pc = "done"
       /\ \E k \in 1..Len(req[o].created) : req[o].created[k] = prev.id
  /\ history' = Append(history,
       [Record(Len(history) + 1, rq.userId, rq.feature, now) EXCEPT !.stamp = prev.stamp])
  /\ req' = [req EXCEPT ![r] =
       Respond([rq EXCEPT !.created = Append(@, Len(history) + 1)], 200, rq.output)]
  /\ UNCHANGED <<users, now, nStarted, qry>>

\* mutant: the failure of the write is swallowed and the output returned
CreateFails_Swallowed(r) ==
  /\ req[r].pc = "create"
  /\ req' = [req EXCEPT ![r] = Respond(req[r], 200, req[r].output)]
  /\ UNCHANGED <<users, history, now, nStarted, qry>>

\* prisma.generationHistory.create throws: the outer catch answers
CreateFails(r) ==
  /\ req[r].pc = "create"
  /\ req' = [req EXCEPT ![r] = Fail(req[r], StorageError)]
  /\ UNCHANGED <<users, history, now, nStarted, qry>>

\* mutant: the late value is taken for the request's result
LateCallSettles_Assigns(r, i, p) ==
  /\ Loser(i, "timeout") \in req[r].losers
  /\ req' = [req EXCEPT ![r] =
       [req[r] EXCEPT !.losers = @ \ {Loser(i, "timeout")}, !.result = p,
                      !.output = Normalize(req[r].feature, p).value]]
  /\ UNCHANGED <<users, history, now, nStarted, qry>>

\* a call whose timer had fired settles, with a value or an error: the
\* promise Promise.race returned is settled already, nothing reads p
LateCallSettles(r, i, p) ==
  /\ Loser(i, "timeout") \in req[r].losers
  /\ req' = [req EXCEPT ![r].losers = @ \ {Loser(i, "timeout")}]
  /\ UNCHANGED <<users, history, now, nStarted, qry>>

\* the timer of a call that had settled fires: its reject is ignored
LateTimerFires(r, i) ==
  /\ Loser(i, "resolved") \in req[r].losers
  /\ req' = [req EXCEPT ![r].losers = @ \ {Loser(i, "resolved")}]
  /\ UNCHANGED <<users, history, now, nStarted, qry>>

\* the response has been delivered; the slot serves the next request
Finish(r) ==
  /\ req[r].pc = "done"
  /\ req' = [req EXCEPT ![r] = IdleReq]
  /\ UNCHANGED <<users, history, now, nStarted, qry>>

\* one quantum of time passes for request r, which is in its loop or
\* awaiting the write of its record: elapsed is the age of the armed
\* timer, waited the time since the request entered its loop
Elapse(r) ==
  LET rq == req[r] IN
  /\ rq.pc \in {"race", "create"}
  /\ rq.pc = "race" => rq.elapsed < TimerTicks(rq.feature, rq.idx)
  /\ rq.waited < SumTimeouts(rq.feature) + MaxOverrun
  /\ req' = [req EXCEPT ![r].waited = @ + 1,
                        ![r].elapsed = IF rq.pc = "race" THEN @ + 1 ELSE @]
  /\ UNCHANGED <<users, history, now, nStarted, qry>>

\* a GET arrives on /api/history (kind "history") or /api/history/usage
\* (kind "usage"); tok: its bearer token verifies, and then names user u
StartQuery(kind, u, tok, q, cursor) ==
  /\ qry.pc = "idle"
  /\ qry' = [IdleQry EXCEPT !.pc = "auth", !.kind = kind,
                            !.userId = IF tok THEN u ELSE "", !.token = tok,
                            !.limit = PageLimit(q), !.cursor = cursor]
  /\ UNCHANGED <<users, history, now, req, nStarted>>

\* requireAuth of the history routes: verifyToken, then prisma.user.upsert
QueryAuth ==
  /\ qry.pc = "auth"
  /\ IF ~qry.token
     THEN /\ qry' = [qry EXCEPT !.pc = "done", !.status = 401]
          /\ UNCHANGED users
     ELSE /\ users' = [users EXCEPT ![qry.userId] =
                 Upsert(@, TokenEmail(qry.userId))]
          /\ qry' = [qry EXCEPT !.pc = IF qry.kind = "history" THEN "findMany" ELSE "findUser"]
  /\ UNCHANGED <<history, now, req, nStarted>>

\* GET /api/history: prisma.generationHistory.findMany(query) resolves
HistoryFindMany ==
  /\ qry.pc = "findMany"
  /\ \E listing \in OrderedByCreatedAtDesc(RowsOf(history, qry.userId)) :
       qry' = [qry EXCEPT !.pc = "count",
                          !.page = PageOf(listing, qry.cursor, qry.limit)]
  /\ UNCHANGED <<users, history, now, req, nStarted>>

\* mutant: the history route prunes the rows of the user once listed
HistoryCount_Prunes ==
  /\ qry.pc = "count"
  /\ qry' = [qry EXCEPT !.pc = "done", !.status = 200]
  /\ history' = SelectSeq(history, LAMBDA x : x.userId # qry.userId)
  /\ UNCHANGED <<users, now, req, nStarted>>

\* GET /api/history: the count resolves, the handler answers with the
\* page and its pagination data
HistoryCount ==
  /\ qry.pc = "count"
  /\ qry' = [qry EXCEPT
       !.pc = "done", !.status = 200,
       !.totalCount = Cardinality(RowsOf(history, qry.userId)),
       !.nextCursor = IF Len(qry.page) > 0 THEN qry.page[Len(qry.page)] ELSE NoCursor,
       !.hasNextPage = (Len(qry.page) = qry.limit)]
  /\ UNCHANGED <<users, history, now, req, nStarted>>

\* GET /api/history/usage: findUnique resolves; 401, or startOfDay is
\* computed and the counts of all features are sent together
UsageFindUser ==
  LET user == users[qry.userId] IN
  /\ qry.pc = "findUser"
  /\ qry' = IF ~user.exists
            THEN [qry EXCEPT !.pc = "done", !.status = 401]
            ELSE [qry EXCEPT !.pc = "counts", !.isPremium = user.isPremium,
                             !.startOfDay = StartOfDay(now), !.at = now,
                             !.pending = UsageFeatures]
  /\ UNCHANGED <<users, history, now, req, nStarted>>

\* GET /api/history/usage: the counts of the features, sent together,
\* have resolved from one state of the table; the handler answers
UsageCounts ==
  /\ qry.pc = "counts"
  /\ qry' = [qry EXCEPT
       !.used = [f \in UsageFeatures |->
                  CountSince(history, qry.userId, f, qry.startOfDay)],
       !.limits = [f \in UsageFeatures |->
                    IF qry.isPremium THEN Unlimited ELSE Amount(UsageLimits[f])],
       !.remaining = [f \in UsageFeatures |->
                       IF qry.isPremium THEN Unlimited
                       ELSE Amount(Remaining(UsageLimits[f],
                              CountSince(history, qry.userId, f, qry.startOfDay)))],
       !.pending = {},
       !.pc = "done", !.status = 200,
       !.resetTime = qry.startOfDay + TicksPerDay]
  /\ UNCHANGED <<users, history, now, req, nStarted>>

\* the answer has been delivered; the client may ask again
FinishQuery ==
  /\ qry.pc = "done"
  /\ qry' = IdleQry
  /\ UNCHANGED <<users, history, now, req, nStarted>>

\* POST /webhook: sig, the signature verifies; the event is handled and
\* acknowledged. A failed signature answers 400 and changes nothing, any
\* other event type is acknowledged unhandled
Webhook(sig, ev) ==
  LET byEmail == {u \in Users : users[u].exists /\ users[u].email = ev.email}
      bySub == {u \in Users : users[u].exists /\ users[u].stripeId = ev.subscription} IN
  /\ IF sig /\ ev.type = "checkout.session.completed" /\ byEmail # {}
     THEN \E u \in byEmail :
            users' = [users EXCEPT ![u] = Subscribed(@, ev.subscription)]
     ELSE IF sig /\ ev.type = "customer.subscription.deleted" /\ bySub # {}
     THEN \E u \in bySub : users' = [users EXCEPT ![u] = Cancelled(@)]
     ELSE users' = users
  /\ UNCHANGED <<history, now, req, nStarted, qry>>

\* wall-clock time passes
Tick ==
  /\ now < MaxNow
  /\ now' = now + 1
  /\ UNCHANGED <<users, history, req, nStarted, qry>>

Next ==
  \/ \E r \in SeqReqs, u \in Users, f \in Features, tok \in BOOLEAN :
       \E prompt \in PromptsOf(f), file \in FilesOf(f) :
         nStarted < MaxRequests /\ StartRequest(r, u, f, tok, prompt, file)
  \/ \E r \in SeqReqs : RequireAuth(r)
  \/ \E r \in SeqReqs : QuotaFindUser(r)
  \/ \E r \in SeqReqs : QuotaCount(r)
  \/ \E r \in SeqReqs : \E p \in ProviderPayloads(req[r].feature) : CallResolves(r, p)
  \/ \E r \in SeqReqs : \E e \in ProviderErrors : CallRejects(r, e)
  \/ \E r \in SeqReqs : TimerFires(r)
  \/ \E r \in SeqReqs : CreateRecord(r)
  \/ \E r \in SeqReqs : CreateFails(r)
  \/ \E r \in SeqReqs : Finish(r)
  \/ Tick

Spec == Init /\ [][Next]_vars

\* the body a client sends when it means the request to be served
ValidPrompt == <<" ", "c", "a", "t">>

\* Overlapping requests: the free user u1 sends well-formed requests that
\* may be in flight together, every slot of Reqs serving one.
NextRace ==
  \/ \E r \in Reqs, f \in Features :
       /\ nStarted < MaxRequests
       /\ StartRequest(r, "u1", f, TRUE,
                       IF f = "image-generator" THEN ValidPrompt ELSE <<>>,
                       IF f = "image-generator" THEN "" ELSE "ok")
  \/ \E r \in Reqs : RequireAuth(r)
  \/ \E r \in Reqs : QuotaFindUser(r)
  \/ \E r \in Reqs : QuotaCount(r)
  \/ \E r \in Reqs : \E p \in ProviderPayloads(req[r].feature) : CallResolves(r, p)
  \/ \E r \in Reqs : \E e \in ProviderErrors : CallRejects(r, e)
  \/ \E r \in Reqs : TimerFires(r)
  \/ \E r \in Reqs : CreateRecord(r)
  \/ \E r \in Reqs : CreateFails(r)
  \/ \E r \in Reqs : Finish(r)

SpecRace == Init /\ [][NextRace]_vars

\* what a call that lost its race may settle with (an error is read as
\* little as a value)
LateValues(f) == ProviderPayloads(f)

\* Late settlements: the requests of Next's free user, well formed, with the
\* promises that lost their race settling at any later moment, also after
\* the response; the slot is reused once they have all settled.
NextLate ==
  \/ \E r \in SeqReqs, f \in Features :
       /\ nStarted < MaxRequests
       /\ StartRequest(r, "u1", f, TRUE,
                       IF f = "image-generator" THEN ValidPrompt ELSE <<>>,
                       IF f = "image-generator" THEN "" ELSE "ok")
  \/ \E r \in SeqReqs : RequireAuth(r)
  \/ \E r \in SeqReqs : QuotaFindUser(r)
  \/ \E r \in SeqReqs : QuotaCount(r)
  \/ \E r \in SeqReqs : \E p \in ProviderPayloads(req[r].feature) : CallResolves(r, p)
  \/ \E r \in SeqReqs : \E e \in ProviderErrors : CallRejects(r, e)
  \/ \E r \in SeqReqs : TimerFires(r)
  \/ \E r \in SeqReqs : CreateRecord(r)
  \/ \E r \in SeqReqs : CreateFails(r)
  \/ \E r \in SeqReqs, i \in 1..Len(ImageModels) :
       \E p \in LateValues(req[r].feature) : LateCallSettles(r, i, p)
  \/ \E r \in SeqReqs, i \in 1..Len(ImageModels) : LateTimerFires(r, i)
  \/ \E r \in SeqReqs : req[r].losers = {} /\ Finish(r)

SpecLate == Init /\ [][NextLate]_vars

\* the timer of r's current candidate has run out
TimerDue(r) ==
  req[r].pc = "race" /\ req[r].elapsed >= TimerTicks(req[r].feature, req[r].idx)

\* Timed requests: a well-formed request of the free user with the time it
\* spends in its loop; a timer fires when it has run for its timeout, a
\* call settles first only before that.
NextTimed ==
  \/ \E r \in SeqReqs, f \in Features :
       /\ nStarted < MaxRequests
       /\ StartRequest(r, "u1", f, TRUE,
                       IF f = "image-generator" THEN ValidPrompt ELSE <<>>,
                       IF f = "image-generator" THEN "" ELSE "ok")
  \/ \E r \in SeqReqs : RequireAuth(r)
  \/ \E r \in SeqReqs : QuotaFindUser(r)
  \/ \E r \in SeqReqs : QuotaCount(r)
  \/ \E r \in SeqReqs : \E p \in ProviderPayloads(req[r].feature) :
       ~TimerDue(r) /\ CallResolves(r, p)
  \/ \E r \in SeqReqs : \E e \in ProviderErrors : ~TimerDue(r) /\ CallRejects(r, e)
  \/ \E r \in SeqReqs : TimerDue(r) /\ TimerFires(r)
  \/ \E r \in SeqReqs : Elapse(r)
  \/ \E r \in SeqReqs : CreateRecord(r)
  \/ \E r \in SeqReqs : CreateFails(r)
  \/ \E r \in SeqReqs : Finish(r)

SpecTimed == Init /\ [][NextTimed]_vars

\* The middleware chain alone: requests on the routes and on a route of
\* the unlisted feature, followed through requireAuth and enforceDailyLimit
\* to the 401, the 429 or next().
NextLimit ==
  \/ \E r \in SeqReqs, u \in Users, f \in Features \cup {UnlistedFeature} :
       /\ nStarted < MaxRequests
       /\ StartRequest(r, u, f, TRUE,
                       IF f = "image-generator" THEN ValidPrompt ELSE <<>>,
                       IF f = "image-generator" THEN "" ELSE "ok")
  \/ \E r \in SeqReqs : RequireAuth(r)
  \/ \E r \in SeqReqs : QuotaFindUser(r)
  \/ \E r \in SeqReqs : QuotaCount(r)
  \/ \E r \in SeqReqs : Finish(r)
  \/ Tick

SpecLimit == Init /\ [][NextLimit]_vars

\* Requests, history queries and usage queries in any sequence, one after
\* the other: a generation request on any route, its calls returning any
\* payload or timing out, or a query of the client of the history routes.
\* Every user starts one record below the free limit on every feature.
InitQuery ==
  /\ Init
  /\ history = Preloaded(UserFeatures, FREE_LIMITS["image-generator"] - 1)

NextQuery ==
  \/ \E r \in SeqReqs, u \in Users :
       /\ nStarted < MaxRequests
       /\ qry.pc = "idle"
       /\ StartRequest(r, u, "image-generator", TRUE, ValidPrompt, "")
  \/ \E r \in SeqReqs : RequireAuth(r)
  \/ \E r \in SeqReqs : QuotaFindUser(r)
  \/ \E r \in SeqReqs : QuotaCount(r)
  \/ \E r \in SeqReqs : \E p \in ProviderPayloads(req[r].feature) : CallResolves(r, p)
  \/ \E r \in SeqReqs : TimerFires(r)
  \/ \E r \in SeqReqs : CreateRecord(r)
  \/ \E r \in SeqReqs : CreateFails(r)
  \/ \E r \in SeqReqs : Finish(r)
  \/ \E kind \in {"history", "usage"}, u \in Users, tok \in BOOLEAN :
       /\ \A r \in SeqReqs : req[r].pc = "idle"
       /\ StartQuery(kind, u, tok, 0, NoCursor)
  \/ QueryAuth
  \/ HistoryFindMany
  \/ HistoryCount
  \/ UsageFindUser
  \/ UsageCounts
  \/ FinishQuery
  \/ Tick

SpecQuery == InitQuery /\ [][NextQuery]_vars

\* Image requests in flight together, of one user or of two, and the
\* client of the history route listing its first page meanwhile.
NextHistory ==
  \/ \E r \in Reqs, u \in Users :
       /\ nStarted < MaxRequests
       /\ StartRequest(r, u, "image-generator", TRUE, ValidPrompt, "")
  \/ \E r \in Reqs : RequireAuth(r)
  \/ \E r \in Reqs : QuotaFindUser(r)
  \/ \E r \in Reqs : QuotaCount(r)
  \/ \E r \in Reqs : \E p \in ProviderPayloads(req[r].feature) : CallResolves(r, p)
  \/ \E r \in Reqs : CreateRecord(r)
  \/ \E r \in Reqs : CreateRecordSameMs(r)
  \/ \E r \in Reqs : Finish(r)
  \/ \E u \in Users, q \in QueryLimits : StartQuery("history", u, TRUE, q, NoCursor)
  \/ QueryAuth
  \/ HistoryFindMany
  \/ HistoryCount
  \/ FinishQuery
  \/ Tick

SpecHistory == InitQuery /\ [][NextHistory]_vars

\* The history route alone, over the table as found: any limit string and
\* any cursor, the id of a row of the table or none.
NextPage ==
  \/ \E u \in Users, str \in LimitStrings :
       \E cursor \in {NoCursor} \cup {history[i].id : i \in 1..Len(history)} :
         StartQuery("history", u, TRUE, NumberOf(str), cursor)
  \/ QueryAuth
  \/ HistoryFindMany
  \/ HistoryCount
  \/ FinishQuery
  \/ Tick

SpecPage == Init /\ [][NextPage]_vars

\* Authentications and Stripe events in any sequence: the usage route is
\* the authenticated request. u1 may have no User row yet.
InitStripe ==
  /\ \E known \in BOOLEAN, stale \in BOOLEAN :
       users = [u \in Users |->
         LET row == IF stale THEN [NewUser EXCEPT !.email = StaleEmail(u)]
                    ELSE KnownUser(u) IN
         IF u = "u2" THEN Subscribed(row, 3)
         ELSE IF known THEN row ELSE NoUser]
  /\ history = <<>>
  /\ now = 0
  /\ req = [r \in BurstReqs |-> IdleReq]
  /\ nStarted = 0
  /\ qry = IdleQry

NextStripe ==
  \/ \E u \in Users, tok \in BOOLEAN : StartQuery("usage", u, tok, 0, NoCursor)
  \/ QueryAuth
  \/ UsageFindUser
  \/ UsageCounts
  \/ FinishQuery
  \/ \E sig \in BOOLEAN, ev \in StripeEvents : Webhook(sig, ev)
  \/ Tick

SpecStripe == InitStripe /\ [][NextStripe]_vars

\* Image requests and usage queries one after the other, while Stripe
\* reports the checkout and the cancellation of u2's subscription and the
\* clock passes.
NextUsage ==
  \/ \E r \in SeqReqs, u \in Users :
       /\ nStarted < MaxRequests
       /\ qry.pc = "idle"
       /\ StartRequest(r, u, "image-generator", TRUE, ValidPrompt, "")
  \/ \E r \in SeqReqs : RequireAuth(r)
  \/ \E r \in SeqReqs : QuotaFindUser(r)
  \/ \E r \in SeqReqs : QuotaCount(r)
  \/ \E r \in SeqReqs : \E p \in ProviderPayloads(req[r].feature) : CallResolves(r, p)
  \/ \E r \in SeqReqs : CreateRecord(r)
  \/ \E r \in SeqReqs : Finish(r)
  \/ \E u \in Users :
       /\ \A r \in SeqReqs : req[r].pc = "idle"
       /\ StartQuery("usage", u, TRUE, 0, NoCursor)
  \/ QueryAuth
  \/ UsageFindUser
  \/ UsageCounts
  \/ FinishQuery
  \/ \E ev \in {e \in StripeEvents : e.subscription = 3} : Webhook(TRUE, ev)
  \/ Tick

SpecUsage == Init /\ [][NextUsage]_vars

\* Requests on any route, one after the other, their provider calls
\* failing with any raw text and status, timing out or returning any
\* payload, the write of the record failing or not.
NextMessages ==
  \/ \E r \in SeqReqs, u \in Users, f \in Features :
       \E prompt \in PromptsOf(f), file \in FilesOf(f) :
         nStarted < MaxRequests /\ StartRequest(r, u, f, TRUE, prompt, file)
  \/ \E r \in SeqReqs : RequireAuth(r)
  \/ \E r \in SeqReqs : QuotaFindUser(r)
  \/ \E r \in SeqReqs : QuotaCount(r)
  \/ \E r \in SeqReqs : \E p \in ProviderPayloads(req[r].feature) : CallResolves(r, p)
  \/ \E r \in SeqReqs : \E e \in RawErrors : CallRejects(r, e)
  \/ \E r \in SeqReqs : TimerFires(r)
  \/ \E r \in SeqReqs : CreateRecord(r)
  \/ \E r \in SeqReqs : CreateFails(r)
  \/ \E r \in SeqReqs : Finish(r)

SpecMessages == InitQuery /\ [][NextMessages]_vars

\* The normalisers on every payload: image and background-removal
\* requests, one after the other, whose first call returns any payload of
\* ShapedPayloads.
NextNormalize ==
  \/ \E r \in SeqReqs, u \in Users, f \in {"image-generator", "background-remover"} :
       /\ nStarted < MaxRequests
       /\ StartRequest(r, u, f, TRUE,
                       IF f = "image-generator" THEN ValidPrompt ELSE <<>>,
                       IF f = "image-generator" THEN "" ELSE "ok")
  \/ \E r \in SeqReqs : RequireAuth(r)
  \/ \E r \in SeqReqs : QuotaFindUser(r)
  \/ \E r \in SeqReqs : QuotaCount(r)
  \/ \E r \in SeqReqs : \E p \in ShapedPayloads(req[r].feature) : CallResolves(r, p)
  \/ \E r \in SeqReqs : CreateRecord(r)
  \/ \E r \in SeqReqs : Finish(r)

SpecNormalize == InitQuery /\ [][NextNormalize]_vars

\* Timers that fire: the requests of Next without the passing of days, and
\* setTimeout's callback runs once its delay is over, so that a race whose
\* call stays pending is settled by its timer. Nothing bounds the time the
\* database takes for the write of the record.
NextLive ==
  \/ \E r \in SeqReqs, u \in Users, f \in Features, tok \in BOOLEAN :
       \E prompt \in PromptsOf(f), file \in FilesOf(f) :
         nStarted < MaxRequests /\ StartRequest(r, u, f, tok, prompt, file)
  \/ \E r \in SeqReqs : RequireAuth(r)
  \/ \E r \in SeqReqs : QuotaFindUser(r)
  \/ \E r \in SeqReqs : QuotaCount(r)
  \/ \E r \in SeqReqs : \E p \in ProviderPayloads(req[r].feature) : CallResolves(r, p)
  \/ \E r \in SeqReqs : \E e \in ProviderErrors : CallRejects(r, e)
  \/ \E r \in SeqReqs : TimerFires(r)
  \/ \E r \in SeqReqs : CreateRecord(r)
  \/ \E r \in SeqReqs : CreateFails(r)
  \/ \E r \in SeqReqs : Finish(r)

SpecLive ==
  InitQuery /\ [][NextLive]_vars /\ \A r \in SeqReqs : WF_vars(TimerFires(r))

\* how far a request has come along its chain
Stage(pc) ==
  CASE pc = "idle" -> 0
    [] pc = "auth" -> 1
    [] pc = "quotaUser" -> 2
    [] pc = "quotaCount" -> 3
    [] pc = "race" -> 4
    [] pc = "create" -> 5
    [] OTHER -> 6

\* The requests of a burst are interchangeable, so a burst is explored in
\* one order of its slots: the first BurstSize requests advance in lock
\* step, none overtaking the slot before it, and the last request follows
\* when they have their responses.
InTurn(r) ==
  LET k == Stage(req[r].pc) IN
  IF r <= BurstSize
  THEN /\ \A q \in 1..BurstSize : q < r => Stage(req[q].pc) > k
       /\ \A q \in 1..BurstSize : q > r => Stage(req[q].pc) = k
  ELSE \A q \in 1..BurstSize : req[q].pc = "done"

\* the burst's requests read the clock in QuotaFindUser and CreateRecord
\* only; it is advanced while none of them is between the two
ClockIdle == \A q \in BurstReqs : req[q].pc \in {"idle", "create", "done"}

\* A burst: the free user u1 sends well-formed image requests, each on a
\* slot of its own, whose provider call succeeds on the first model; the
\* clock runs beside them.
NextBurst ==
  \/ \E r \in BurstReqs :
       InTurn(r) /\ StartRequest(r, "u1", "image-generator", TRUE, ValidPrompt, "")
  \/ \E r \in BurstReqs : InTurn(r) /\ RequireAuth(r)
  \/ \E r \in BurstReqs : InTurn(r) /\ QuotaFindUser(r)
  \/ \E r \in BurstReqs : InTurn(r) /\ QuotaCount(r)
  \/ \E r \in BurstReqs : InTurn(r) /\ CallResolves(r, Payload("blob", FALSE, "imgA"))
  \/ \E r \in BurstReqs : InTurn(r) /\ CreateRecord(r)
  \/ ClockIdle /\ Tick

SpecBurst == Init /\ [][NextBurst]_vars

-----------------------------------------------------------------------------
(* Properties *)

IsPremium(r) == req[r].userId \in Users /\ users[req[r].userId].isPremium

\* the body of request r passes its route's input validation
InputAccepted(r) ==
  IF req[r].feature = "image-generator" THEN ~PromptRejected(req[r].prompt)
  ELSE req[r].file = "ok"

\* C1: a non-premium user whose records of today for a feature number at
\* least the feature's limit gets 429 for a new request on that feature; no
\* provider call is started and no record is created for that request.
C1_QuotaExceeded ==
  /\ [][\A r \in Reqs :
          ( /\ req[r].pc = "quotaCount"
            /\ req'[r] # req[r]
            /\ ~IsPremium(r)
            /\ UsageToday(req[r].userId, req[r].feature) >= FREE_LIMITS[req[r].feature] )
          => ( /\ req'[r].pc = "done"
               /\ req'[r].status = 429
               /\ req'[r].attempts = <<>>
               /\ req'[r].created = <<>>
               /\ history' = history )]_vars
  /\ [](\A r \in Reqs :
          req[r].status = 429 =>
            req[r].pc = "done" /\ req[r].attempts = <<>> /\ req[r].created = <<>>)

\* a free user with 10 records of today has been answered 429
C1_Witness ==
  \E r \in Reqs :
    /\ req[r].status = 429
    /\ ~IsPremium(r)
    /\ req[r].count = 10
    /\ UsageToday(req[r].userId, req[r].feature) = 10

\* C2: the quota check admits every request of a premium user, whatever the
\* user's usage of the day: it is never answered 429, no count is taken,
\* and the route handler runs (a valid body starts the first provider call).
C2_PremiumAdmitted ==
  /\ [][\A r \in Reqs :
          ( /\ req[r].pc = "quotaUser"
            /\ req'[r] # req[r]
            /\ IsPremium(r) )
          => ( /\ req'[r].pc \in {"race", "done"}
               /\ req'[r].status \notin {401, 429}
               /\ req'[r].count = -1
               /\ InputAccepted(r) => req'[r].attempts = <<1>> )]_vars
  /\ [](\A r \in Reqs : IsPremium(r) => req[r].status # 429 /\ req[r].pc # "quotaCount")

\* a premium user at the free limit has a provider call in flight
C2_Witness ==
  \E r \in Reqs :
    /\ IsPremium(r)
    /\ UsageToday(req[r].userId, req[r].feature) >= FREE_LIMITS[req[r].feature]
    /\ req[r].pc = "race"

Last(q) == q[Len(q)]

\* request r took a step in which the race of its current candidate settled
Settled(r) ==
  /\ req[r].pc = "race"
  /\ Len(req'[r].outcomes) = Len(req[r].outcomes) + 1

\* the prompt, trimmed, has fewer than 3 characters
TooShort(prompt) == Len(Trim(prompt)) < 3

\* C4 as claimed: a request with a too short prompt never reaches the quota
\* lookup or count (validation first). The code mounts enforceDailyLimit
\* before the handler that validates, so this fails.
C4_ValidationBeforeQuota ==
  \A r \in Reqs :
    (req[r].feature = "image-generator" /\ TooShort(req[r].prompt))
    => (req[r].count = -1 /\ req[r].status # 429 /\ req[r].attempts = <<>>)

\* C4, amended: an image request whose trimmed prompt has fewer than 3
\* characters is rejected before any provider call is started, but after
\* the quota check: it is answered 400 only once the quota check admitted
\* it (a free user at the limit gets 429 instead), and no provider call or
\* record ever happens for it.
C4_ValidationBeforeProvider ==
  \A r \in Reqs :
    (req[r].feature = "image-generator" /\ TooShort(req[r].prompt))
    => /\ req[r].attempts = <<>>
       /\ req[r].created = <<>>
       /\ req[r].pc \notin {"race", "create"}
       /\ req[r].pc = "done" => req[r].status \in {400, 401, 429}
       /\ req[r].status = 400 =>
            \/ IsPremium(r)
            \/ (req[r].count >= 0 /\ req[r].count < FREE_LIMITS[req[r].feature])
       /\ (req[r].count >= FREE_LIMITS[req[r].feature]) => req[r].status = 429

\* a free user's prompt that is too short only once trimmed was counted
\* against the quota and then answered 400
C4_Witness ==
  \E r \in Reqs :
    /\ req[r].feature = "image-generator"
    /\ req[r].prompt = <<" ", "a", "b", " ">>
    /\ ~IsPremium(r)
    /\ req[r].count >= 0
    /\ req[r].status = 400

\* C5 as claimed: in the loop of every feature, a timer that fires while a
\* later candidate remains makes the loop attempt the next candidate.
\* bgRemove.ts retries on status 402 only, so its loop ends on a timeout.
C5_TimeoutRetried ==
  [][\A r \in Reqs :
       ( /\ Settled(r)
         /\ Last(req'[r].outcomes).kind = "timeout"
         /\ req[r].idx < Len(Models(req[r].feature)) )
       => ( /\ req'[r].pc = "race"
            /\ req'[r].idx = req[r].idx + 1
            /\ req'[r].attempts = Append(req[r].attempts, req[r].idx + 1) )]_vars

\* C6: an error of a candidate that is neither a timeout nor a 402 ends the
\* loop: the request is answered with an error at once, no later candidate
\* is attempted for it, and nothing is recorded.
C6_FatalStops ==
  /\ [][\A r \in Reqs :
          ( /\ Settled(r)
            /\ Last(req'[r].outcomes).kind = "rejected"
            /\ Last(req'[r].outcomes).err.message # "Request timeout"
            /\ Last(req'[r].outcomes).err.status # 402 )
          => ( /\ req'[r].pc = "done"
               /\ req'[r].status = 500
               /\ req'[r].attempts = req[r].attempts
               /\ history' = history )]_vars
  /\ [][\A r \in Reqs :
          req[r].pc = "done" => req'[r].attempts \in {req[r].attempts, <<>>}]_vars

\* the second candidate failed fatally after the first timed out: the third
\* was never tried
C6_Witness ==
  \E r \in Reqs :
    /\ req[r].pc = "done"
    /\ req[r].status = 500
    /\ Len(req[r].outcomes) = 2
    /\ req[r].outcomes[1].kind = "timeout"
    /\ req[r].outcomes[2] = Outcome("rejected", Err("provider error", 429), Undefined)
    /\ req[r].attempts = <<1, 2>>

\* C7: when the first k candidates fail retryably and candidate k+1's call
\* returns, the request's result comes from that payload (the handler's
\* response variable holds it, the normalised output and a 200 body are its
\* normalisation), the candidates attempted are exactly 1..k+1, each once,
\* and none is attempted afterwards.
C7_FirstSuccessWins ==
  \A r \in Reqs :
    (req[r].outcomes # <<>> /\ Last(req[r].outcomes).kind = "resolved")
    => LET n == Len(req[r].outcomes)
           p == Last(req[r].outcomes).payload IN
       /\ req[r].attempts = [i \in 1..n |-> i]
       /\ \A i \in 1..(n - 1) :
            /\ req[r].outcomes[i].kind # "resolved"
            /\ Retryable(req[r].feature, req[r].outcomes[i].err)
       /\ req[r].result = p
       /\ req[r].pc \in {"create", "done"}
       /\ req[r].pc = "create" => req[r].output = Normalize(req[r].feature, p).value
       /\ req[r].status = 200 => req[r].body = Normalize(req[r].feature, p).value
       /\ req[r].status \in {0, 200, 500}

\* two candidates failed retryably, the third returned a blob, and the 200
\* response carries that blob's base64
C7_Witness ==
  \E r \in Reqs :
    /\ req[r].status = 200
    /\ Len(req[r].outcomes) = 3
    /\ req[r].outcomes[1].kind = "timeout"
    /\ req[r].outcomes[2].err.status = 402
    /\ req[r].outcomes[3].payload = Payload("blob", FALSE, "imgB")
    /\ req[r].body = "b64(imgB)"

\* C8: a request creates at most one record, and only after a candidate's
\* call returned a payload that was normalised; every request answered with
\* an error leaves the history as it was.
C8_RecordOnlyOnSuccess ==
  /\ [](\A r \in Reqs :
          /\ Len(req[r].created) <= 1
          /\ req[r].created # <<>> =>
               /\ req[r].status = 200
               /\ req[r].outcomes # <<>>
               /\ Last(req[r].outcomes).kind = "resolved"
               /\ Normalize(req[r].feature, Last(req[r].outcomes).payload).ok
               /\ req[r].created[1] \in 1..Len(history)
               /\ history[req[r].created[1]].userId = req[r].userId
               /\ history[req[r].created[1]].feature = req[r].feature
          /\ req[r].status \notin {0, 200} => req[r].created = <<>>)
  /\ [][ /\ history' # history =>
              \E r \in Reqs :
                /\ req[r].pc = "create"
                /\ req'[r].status = 200
                /\ req'[r].created = <<Len(history) + 1>>
                /\ Len(history') = Len(history) + 1
                /\ SubSeq(history', 1, Len(history)) = history
         /\ \A r \in Reqs :
              (req[r].status = 0 /\ req'[r].status \notin {0, 200})
              => history' = history ]_vars

\* a request that needed a second candidate has its one record in the table
C8_Witness ==
  \E r \in Reqs :
    /\ req[r].status = 200
    /\ Len(req[r].attempts) = 2
    /\ Len(req[r].created) = 1
    /\ history[req[r].created[1]].userId = req[r].userId

\* request r took the step in which its write to the history failed
WriteFailed(r) ==
  /\ req[r].pc = "create"
  /\ req'[r].pc = "done"
  /\ history' = history

\* C9 as claimed: when the provider call and the normalisation succeeded
\* and the write of the record fails, the user still gets the output.
C9_OutputDespiteStorageFailure ==
  [][\A r \in Reqs :
       WriteFailed(r) => (req'[r].status = 200 /\ req'[r].body = req[r].output)]_vars

\* C9, amended: when the provider call and the normalisation succeeded and
\* the write of the record fails, the request is answered with the route's
\* generic error (500); the generated output is not returned and no record
\* exists for the request.
C9_StorageFailureIsError ==
  [][\A r \in Reqs :
       WriteFailed(r)
       => ( /\ req'[r].status = 500
            /\ req'[r].body = ErrorMessage(req[r].feature, StorageError)
            /\ req'[r].body # req[r].output
            /\ req'[r].created = <<>> )]_vars

\* a normalised output was at hand and the request was answered 500
C9_Witness ==
  \E r \in Reqs :
    /\ req[r].status = 500
    /\ req[r].output # ""
    /\ Last(req[r].outcomes).kind = "resolved"
    /\ req[r].created = <<>>

\* C10: two overlapping requests of one free user on one feature, begun at
\* limit - 1 records of the day, can both pass the quota check and both
\* create a record: the day's count then stands at limit + 1 (C10_Witness).
\* What bounds the count is the number of requests in flight: every request
\* that got past the check read a count below the limit, and the count
\* exceeds the limit by at most the overlapping requests less one.
C10_OvershootBound ==
  /\ \A r \in Reqs :
       (~IsPremium(r) /\ (req[r].pc \in {"race", "create"} \/ req[r].created # <<>>))
       => (req[r].count >= 0 /\ req[r].count < FREE_LIMITS[req[r].feature])
  /\ \A f \in Features :
       UsageToday("u1", f) <= FREE_LIMITS[f] + Cardinality(Reqs) - 1

\* both requests read limit - 1, both created their record, and the user's
\* count of the day is limit + 1
C10_Witness ==
  \E f \in Features :
    /\ \A r \in Reqs :
         /\ req[r].userId = "u1"
         /\ req[r].feature = f
         /\ req[r].count = FREE_LIMITS[f] - 1
         /\ req[r].status = 200
         /\ Len(req[r].created) = 1
    /\ req[1].created # req[2].created
    /\ UsageToday("u1", f) = FREE_LIMITS[f] + 1

\* the start of the UTC day the clock stands in
TodayStart == (now \div TicksPerDay) * TicksPerDay

\* request r takes the decision of its quota check in this step
Decides(r) == req[r].pc = "quotaCount" /\ req'[r].pc # "quotaCount"

\* records of request r's user and feature created before the day of its check
BeforeWindow(r) ==
  CountSince(history, req[r].userId, req[r].feature, 0)
    - CountSince(history, req[r].userId, req[r].feature, req[r].startOfDay)

\* no request but r has come to its quota check in the day of r's check
FirstCheckOfDay(r) ==
  /\ nStarted = Cardinality({q \in BurstReqs : req[q].pc # "idle"})
  /\ \A q \in BurstReqs \ {r} : req[q].startOfDay < req[r].startOfDay

\* C3 as stated: once a non-premium user's count of a feature has reached
\* the limit within a UTC day, every later quota check of that day is
\* denied, and the first quota check after the day rolls over is admitted.
C3_FirstCheckAfterRollover ==
  [][\A r \in BurstReqs :
       (Decides(r) /\ ~IsPremium(r)) =>
         /\ (req[r].startOfDay = TodayStart
               /\ CountSince(history, req[r].userId, req[r].feature, TodayStart)
                    >= LimitOf(req[r].feature))
            => req'[r].status = 429
         /\ (req[r].startOfDay = TodayStart /\ req[r].startOfDay > 0
               /\ BeforeWindow(r) >= LimitOf(req[r].feature)
               /\ FirstCheckOfDay(r))
            => req'[r].status # 429]_vars

\* C3, amended: the window of a quota check opens at the start of the UTC
\* day in which the check is made; the check is denied exactly when the
\* user's records of the feature created since then number at least the
\* limit; and a count that has reached the limit stays there, so every
\* later check of that day is denied. A check of a later day is admitted
\* while fewer records than the limit were created in that day, whoever
\* was admitted before the rollover.
C3_DeniedWithinDay ==
  [][/\ \A r \in BurstReqs :
          (req[r].pc = "quotaUser" /\ req'[r].pc = "quotaCount")
          => req'[r].startOfDay = TodayStart
     /\ \A r \in BurstReqs :
          (Decides(r) /\ ~IsPremium(r)) =>
            /\ req'[r].status = 429
                 <=> CountSince(history, req[r].userId, req[r].feature, req[r].startOfDay)
                       >= LimitOf(req[r].feature)
            /\ req'[r].status # 429 => req'[r].pc \in {"race", "done"}
            /\ req'[r].status # 429 => req'[r].status \in {0, 400, 422, 500}
     /\ \A u \in Users, f \in Features, d \in 0..MaxNow :
          CountSince(history, u, f, d) >= LimitOf(f)
          => CountSince(history', u, f, d) >= LimitOf(f)]_vars

\* a check made after the rollover was admitted on a count below the limit,
\* the user's records of the day before numbering at least the limit
C3_Witness ==
  \E r \in BurstReqs :
    /\ ~IsPremium(r)
    /\ req[r].startOfDay > 0
    /\ req[r].startOfDay = TodayStart
    /\ req[r].count >= 0
    /\ req[r].count < LimitOf(req[r].feature)
    /\ req[r].pc \in {"race", "create", "done"}
    /\ req[r].status # 429
    /\ BeforeWindow(r) >= LimitOf(req[r].feature)
    /\ \E q \in BurstReqs :
         req[q].startOfDay = 0 /\ req[q].status = 429 /\ req[q].feature = req[r].feature

\* request r without its pending losers
Visible(rq) == [rq EXCEPT !.losers = {}]

\* C11: the loser of a race never affects the request. A step in which a
\* call settles after its timer fired, or a timer fires after its call
\* settled, leaves the request's response, its position in the loop, its
\* attempts and every other field as they were, and leaves the users and
\* the history unchanged; and the losers pending are exactly those of the
\* attempts that have ended, one each at most.
C11_LoserIgnored ==
  /\ [][\A r \in SeqReqs :
          (req'[r].losers # req[r].losers /\ req'[r].losers \subseteq req[r].losers)
          => /\ Visible(req'[r]) = Visible(req[r])
             /\ history' = history
             /\ users' = users]_vars
  /\ [](\A r \in SeqReqs : \A l \in req[r].losers :
          /\ l.idx \in 1..Len(req[r].outcomes)
          /\ l.kind = "call" <=> req[r].outcomes[l.idx].kind = "timeout")

\* the first candidate's timer fired, and its call settled late while the
\* second candidate was racing; the second returned, its timer fired after
\* the response; the response carries the second candidate's output
C11_Witness ==
  \E r \in SeqReqs :
    /\ req[r].status = 200
    /\ Len(req[r].outcomes) = 2
    /\ req[r].outcomes[1].kind = "timeout"
    /\ req[r].outcomes[2].kind = "resolved"
    /\ req[r].losers = {}
    /\ req[r].body = Normalize(req[r].feature, req[r].outcomes[2].payload).value
    /\ Len(req[r].created) = 1

\* C12 as claimed: in every feature's loop a retryable failure (a timeout
\* or a 402) ends a request only when every candidate of the list has been
\* attempted. bgRemove.ts does not retry a timeout, so its request ends on
\* the first candidate's timeout with two candidates untried.
C12_RetryableAbsorbed ==
  \A r \in Reqs :
    ( /\ req[r].pc = "done"
      /\ req[r].outcomes # <<>>
      /\ Last(req[r].outcomes).kind # "resolved"
      /\ \/ Last(req[r].outcomes).err.message = "Request timeout"
         \/ Last(req[r].outcomes).err.status = 402 )
    => Len(req[r].attempts) = Len(Models(req[r].feature))

\* the payload a call returned yields no output: it is falsy, or its
\* normalisation throws
Unusable(f, p) == ~Truthy(p) \/ ~Normalize(f, p).ok

\* C13: when a candidate's call returns a payload that cannot be
\* normalised, the request fails at once: it is answered 500 in that step,
\* no further candidate is attempted, and no record is created.
C13_NormalizationFailureFatal ==
  /\ [][\A r \in Reqs :
          ( /\ Settled(r)
            /\ Last(req'[r].outcomes).kind = "resolved"
            /\ Unusable(req[r].feature, Last(req'[r].outcomes).payload) )
          => ( /\ req'[r].pc = "done"
               /\ req'[r].status = 500
               /\ req'[r].attempts = req[r].attempts
               /\ req'[r].created = <<>>
               /\ history' = history )]_vars
  /\ [](\A r \in Reqs :
          ( /\ req[r].outcomes # <<>>
            /\ Last(req[r].outcomes).kind = "resolved"
            /\ Unusable(req[r].feature, Last(req[r].outcomes).payload) )
          => ( /\ req[r].pc = "done"
               /\ req[r].status = 500
               /\ req[r].created = <<>>
               /\ Len(req[r].attempts) = Len(req[r].outcomes) ))

\* the first image model returned an object of no known shape: the request
\* was answered 500 with the second and third model untried
C13_Witness ==
  \E r \in Reqs :
    /\ req[r].feature = "image-generator"
    /\ req[r].outcomes = <<Outcome("resolved", NoError, Payload("object", FALSE, ""))>>
    /\ req[r].attempts = <<1>>
    /\ req[r].status = 500
    /\ req[r].body = "Image generation service temporarily unavailable."
    /\ req[r].created = <<>>

\* C14: the candidates of a request are tried one after another in the
\* order of the list: the attempts made are always candidates 1..n without
\* gap or repeat, at most one race is awaited at a time (while it is, all
\* earlier attempts have ended), and the call of the next candidate is
\* started only in the step in which the current attempt ends.
C14_SequentialInOrder ==
  /\ [](\A r \in Reqs :
          LET n == Len(req[r].attempts) IN
          /\ req[r].attempts = [i \in 1..n |-> i]
          /\ n <= Len(Models(req[r].feature))
          /\ req[r].pc = "race" => (n >= 1 /\ req[r].idx = n /\ Len(req[r].outcomes) = n - 1)
          /\ req[r].pc # "race" => Len(req[r].outcomes) = n)
  /\ [][\A r \in Reqs :
          (req'[r].attempts # req[r].attempts /\ req[r].attempts # <<>>
             /\ req'[r].attempts # <<>>)
          => /\ Settled(r)
             /\ Last(req'[r].outcomes).kind # "resolved"
             /\ req'[r].attempts = Append(req[r].attempts, req[r].idx + 1)]_vars

\* the third candidate is racing after the first two failed in turn
C14_Witness ==
  \E r \in Reqs :
    /\ req[r].pc = "race"
    /\ req[r].attempts = <<1, 2, 3>>
    /\ Len(req[r].outcomes) = 2
    /\ req[r].outcomes[1].err.status = 402
    /\ req[r].outcomes[2].err.status = 402

\* C15 as claimed: a request that has entered its fallback loop is never
\* without a response for longer than the sum of its feature's timeouts.
\* The write of the record that follows the loop is awaited without a
\* timer, so the response can come later than that.
C15_ResponseWithinTimeouts ==
  \A r \in SeqReqs :
    req[r].pc \in {"race", "create"} => req[r].waited <= SumTimeouts(req[r].feature)

\* C15, amended: the fallback loop of a request ends within the sum of its
\* feature's timeouts, whatever the providers do: no attempt outlasts its
\* candidate's timeout, a racing request has waited no longer than the sum,
\* and the loop is left no later than that. A failed loop is answered in
\* the step that ends it; after a successful loop the response follows the
\* normalisation and the write of the record, which no timer bounds.
C15_LoopWithinTimeouts ==
  /\ [](\A r \in SeqReqs :
          req[r].pc = "race" =>
            /\ req[r].elapsed * Quantum <= Models(req[r].feature)[req[r].idx].timeout
            /\ req[r].waited <= SumTimeouts(req[r].feature))
  /\ [][\A r \in SeqReqs :
          (Settled(r) /\ req'[r].pc # "race")
          => /\ req[r].waited <= SumTimeouts(req[r].feature)
             /\ req'[r].pc \in {"create", "done"}
             /\ req'[r].pc = "create" <=>
                  ~Unusable(req[r].feature, Last(req'[r].outcomes).payload)
                  /\ Last(req'[r].outcomes).kind = "resolved"]_vars

\* two candidates ran into their timeouts, the third returned, and the
\* request has been awaiting the write of its record until past the sum of
\* the timeouts
C15_Witness ==
  \E r \in SeqReqs :
    /\ req[r].pc = "create"
    /\ Len(req[r].outcomes) = 3
    /\ req[r].outcomes[1].kind = "timeout"
    /\ req[r].outcomes[2].kind = "timeout"
    /\ req[r].waited > SumTimeouts(req[r].feature)

\* request r was answered with an error for want of a usable result
NoUsableResult(r) ==
  /\ req[r].pc = "done"
  /\ req[r].status = 500
  /\ req[r].outcomes # <<>>
  /\ req[r].output = ""

\* the error of the latest attempt among the first n that ended in an error
RECURSIVE LastObserved(_, _)
LastObserved(outs, n) ==
  IF n = 0 THEN AllFailedError
  ELSE IF outs[n].kind # "resolved" THEN outs[n].err
  ELSE LastObserved(outs, n - 1)

\* what the last attempt itself gave for an error: the error of its call or
\* timer, the error of normalising its payload, or none for a falsy payload
OfLastCandidate(f, o) ==
  IF o.kind # "resolved" THEN o.err
  ELSE IF ~Truthy(o.payload) THEN AllFailedError
  ELSE Normalize(f, o.payload).err

\* C16 as claimed: when no candidate yields a usable result, the error
\* surfaced is the one of the last candidate attempted, never that of an
\* earlier candidate. When the last call returns a falsy value the handler
\* throws the lastError it kept from an earlier candidate.
C16_ErrorOfLastCandidate ==
  \A r \in Reqs :
    NoUsableResult(r) =>
      req[r].body = ErrorMessage(req[r].feature,
                                 OfLastCandidate(req[r].feature, Last(req[r].outcomes)))

\* C16, amended: when no candidate yields a usable result, the error
\* surfaced is the last error observed in the loop: the error of the last
\* attempt when that attempt failed or its payload could not be
\* normalised; and when the last call returned a falsy value, the error of
\* the latest earlier attempt that failed (\"All models failed\" if none did).
C16_LastObservedError ==
  \A r \in Reqs :
    NoUsableResult(r) =>
      LET o == Last(req[r].outcomes) IN
      req[r].body = ErrorMessage(req[r].feature,
        IF o.kind = "resolved" /\ Truthy(o.payload)
        THEN Normalize(req[r].feature, o.payload).err
        ELSE LastObserved(req[r].outcomes, Len(req[r].outcomes)))

\* the first candidate timed out, the second returned a falsy value, and
\* the response tells of the first candidate's timeout
C16_Witness ==
  \E r \in Reqs :
    /\ NoUsableResult(r)
    /\ req[r].feature = "image-generator"
    /\ Len(req[r].outcomes) = 2
    /\ req[r].outcomes[1].kind = "timeout"
    /\ req[r].outcomes[2] = Outcome("resolved", NoError, Undefined)
    /\ req[r].body = "Image generation timed out. Please try again."

\* C17 as claimed: for a feature with no entry in the limit table the
\* quota check uses a limit of 10, so a non-premium user with fewer than 10
\* records of the day is admitted. The code's default is 0.
C17_DefaultLimitTen ==
  [][\A r \in SeqReqs :
       ( /\ Decides(r)
         /\ ~IsPremium(r)
         /\ req[r].feature \notin DOMAIN FREE_LIMITS
         /\ CountSince(history, req[r].userId, req[r].feature, req[r].startOfDay) < 10 )
       => (req'[r].status # 429 /\ req'[r].pc = "next")]_vars

\* C17, amended: for a feature with no entry in the limit table the quota
\* check uses a limit of 0: every request of a non-premium user on it is
\* denied with 429, also with no record at all, and only a premium user
\* passes; a feature with an entry is held to its entry.
C17_UnlistedDenied ==
  /\ [][\A r \in SeqReqs :
          (Decides(r) /\ ~IsPremium(r)) =>
            IF req[r].feature \in DOMAIN FREE_LIMITS
            THEN req'[r].status = 429
                   <=> CountSince(history, req[r].userId, req[r].feature, req[r].startOfDay)
                         >= FREE_LIMITS[req[r].feature]
            ELSE req'[r].status = 429 /\ req'[r].pc = "done"]_vars
  /\ [](\A r \in SeqReqs :
          req[r].pc = "next" => (IsPremium(r) /\ req[r].feature = UnlistedFeature))

\* a free user without any record of the unlisted feature was answered 429
C17_Witness ==
  \E r \in SeqReqs :
    /\ req[r].feature = UnlistedFeature
    /\ ~IsPremium(r)
    /\ req[r].count = 0
    /\ req[r].status = 429
    /\ req[r].body = QuotaMessage(UnlistedFeature)

\* C18: the quota check is read-only: a step of it, admitting or denying,
\* changes neither the user table nor the generation history; the history
\* changes only in the step that answers 200, so a request that is
\* admitted and ends in an error, all its attempts having failed, leaves
\* the records of its user as they were.
C18_QuotaCheckReadOnly ==
  /\ [][\A r \in SeqReqs :
          (req[r].pc \in {"quotaUser", "quotaCount"} /\ req'[r] # req[r])
            => (users' = users /\ history' = history)]_vars
  /\ [][history' # history =>
          \E r \in SeqReqs :
            req[r].pc = "create" /\ req'[r].pc = "done" /\ req'[r].status = 200]_vars
  /\ [][\A r \in SeqReqs :
          (req[r].pc # "done" /\ req'[r].pc = "done" /\ req'[r].status # 200)
            => (history' = history /\ req'[r].created = <<>>)]_vars

\* a free user's request was admitted by the count, every candidate was
\* attempted and failed, and the count of the request's day is what the
\* quota check had read
C18_Witness ==
  \E r \in SeqReqs :
    /\ req[r].pc = "done"
    /\ req[r].status >= 500
    /\ ~IsPremium(r)
    /\ Len(req[r].outcomes) = Len(Models(req[r].feature))
    /\ \A i \in 1..Len(req[r].outcomes) : req[r].outcomes[i].kind # "resolved"
    /\ CountSince(history, req[r].userId, req[r].feature, req[r].startOfDay) = req[r].count

\* C19: for every user and feature, a step within one UTC day never lowers
\* the usage count, whatever the step is: of a generation request, of a
\* history query or of a usage query; the count drops only in a step that
\* takes the clock into the next UTC day.
C19_UsageMonotoneWithinDay ==
  [][\/ (history' = history /\ now' = now)
     \/ \A u \in Users, f \in UsageFeatures :
          LET before == CountSince(history, u, f, StartOfDay(now))
              after == CountSince(history', u, f, StartOfDay(now')) IN
          /\ StartOfDay(now') = StartOfDay(now) => after >= before
          /\ after < before
               => (now' = now + 1 /\ StartOfDay(now') = StartOfDay(now) + TicksPerDay)]_vars

\* a usage query was answered after a request had written a record for
\* its user later the same day: it reports the count with that record
C19_Witness ==
  /\ qry.pc = "done" /\ qry.kind = "usage" /\ qry.status = 200
  /\ Len(history) > 0
  /\ LET new == history[Len(history)] IN
       /\ new.userId = qry.userId
       /\ new.createdAt >= 1
       /\ new.createdAt >= qry.startOfDay
       /\ qry.used[new.feature] = UsageToday(new.userId, new.feature)
       /\ qry.used[new.feature] = FREE_LIMITS[new.feature]

\* C20 as claimed: when a request has answered 200 and its record is the
\* row written last, of the user who asks, a history query without cursor
\* whose findMany runs then lists that record first.
C20_NewRecordFirst ==
  [][( /\ qry.pc = "findMany" /\ qry'.pc = "count"
       /\ qry.cursor = NoCursor
       /\ Len(history) > 0
       /\ history[Len(history)].userId = qry.userId
       /\ \E r \in Reqs :
            /\ req[r].pc = "done" /\ req[r].status = 200
            /\ req[r].created = <<Len(history)>> )
      => (Len(qry'.page) > 0 /\ qry'.page[1] = Len(history))]_vars

\* C21 as claimed: whatever the limit string, the history query uses a
\* page size between 1 and 50 and lists at most 50 records.
C21_PageSizeClamped ==
  (qry.kind = "history" /\ qry.pc \in {"findMany", "count", "done"})
    => (qry.limit \in 1..50 /\ Len(qry.page) <= 50)

UsageReported ==
  qry.kind = "usage" /\ qry.pc = "done" /\ qry.status = 200 /\ ~qry.isPremium

\* C22: the usage report of a non-premium user gives, for each of the four
\* features, used = the number of the user's records of the UTC day in
\* which the handler read the clock, limit = the feature's limit and
\* remaining = max(0, limit - used), never negative; resetTime is the start
\* of the next UTC day, strictly later than that reading of the clock.
C22_UsageReport ==
  UsageReported =>
    /\ DOMAIN qry.used = DOMAIN FREE_LIMITS
    /\ Cardinality(DOMAIN qry.used) = 4
    /\ \A f \in DOMAIN FREE_LIMITS :
         /\ qry.used[f] = CountSince(history, qry.userId, f, StartOfDay(qry.at))
         /\ qry.limits[f] = Amount(FREE_LIMITS[f])
         /\ qry.remaining[f] =
              Amount(IF qry.used[f] >= FREE_LIMITS[f] THEN 0
                     ELSE FREE_LIMITS[f] - qry.used[f])
         /\ qry.remaining[f].n >= 0
    /\ qry.resetTime = StartOfDay(qry.at) + TicksPerDay
    /\ qry.resetTime > qry.at
    /\ qry.resetTime % TicksPerDay = 0

\* a user whose subscription was cancelled holds more records of the day
\* than the limit: the report shows remaining 0
C22_Witness ==
  /\ UsageReported
  /\ qry.used["image-generator"] > FREE_LIMITS["image-generator"]
  /\ qry.remaining["image-generator"] = Amount(0)
  /\ qry.at >= 1

\* the user-facing messages of the route of feature f, from the quota
\* middleware to the outer catch
UserMessages(f) ==
  { "User not found.", QuotaMessage(f), "Internal server error",
    "Rate limit exceeded. Please try again later." }
  \cup ( CASE f = "image-generator" ->
                { "Prompt must be at least 3 characters.",
                  "Image generation timed out. Please try again.",
                  "Image generation service temporarily unavailable.",
                  "Image generation failed" }
           [] f = "background-remover" ->
                { "Image file is required.",
                  "Image processing timed out. Please try again.",
                  "Failed to process image." }
           [] OTHER ->
                { "No file uploaded.", "Resume too short or empty.",
                  "Resume analysis timed out. Please try again.",
                  "Resume analysis failed. Try again later." } )

\* what the outer catches read of an error: whether its text is the
\* timer's, whether its status is 429, whether its text names the format
ErrorClass(e) ==
  <<e.message = "Request timeout", e.status = 429, MentionsUnsupported(e.message)>>

\* request r was answered 500 for the error its last provider call gave
FailedOnProvider(r) ==
  /\ req[r].pc = "done" /\ req[r].status = 500
  /\ req[r].outcomes # <<>>
  /\ Last(req[r].outcomes).kind = "rejected"

KnownShapes(f) ==
  IF f = "image-generator"
  THEN <<"string", "blob", "arraybuffer", "data", "buffer", "base64", "image">>
  ELSE <<"blob", "string", "mask", "image", "0">>

\* payload p has the shape: it is the binary or the string, or an object
\* holding the data under the field (bytes under buffer, a string under the
\* others, or under "0" an entry that carries the mask)
HasShape(p, shape) ==
  CASE shape \in {"string", "blob", "arraybuffer"} -> p.kind = shape
    [] shape = "buffer" -> p.kind = "object" /\ p.fields[shape].type = "bytes"
    [] shape = "0" ->
         p.kind = "object" /\ (IsString(p.fields[shape]) \/ p.fields[shape].type = "withMask")
    [] OTHER -> p.kind = "object" /\ IsString(p.fields[shape])

\* the canonical value the shape gives: base64 of the bytes, the string
\* itself for the image route, the string without its prefix for the mask
ShapeValue(f, p, shape) ==
  CASE shape \in {"blob", "arraybuffer"} -> B64(p.data)
    [] shape = "string" -> IF f = "image-generator" THEN Text(p) ELSE p.data
    [] shape = "buffer" -> B64(p.fields[shape].data)
    [] OTHER -> IF f = "image-generator" THEN FieldText(p.fields[shape])
                ELSE p.fields[shape].data

\* the ranks of the known shapes p has
ShapesOf(f, p) == {k \in 1..Len(KnownShapes(f)) : HasShape(p, KnownShapes(f)[k])}

\* convertToBase64, or the mask extraction
Canonical(f, p) == IF f = "image-generator" THEN convertToBase64(p) ELSE ExtractMask(p)

\* the first call of request r returned a value, which went to the normaliser
Normalized(r) ==
  /\ req[r].pc \in {"create", "done"}
  /\ req[r].outcomes # <<>>
  /\ Last(req[r].outcomes).kind = "resolved"
  /\ Truthy(req[r].result)

\* C24 as claimed: a payload that has at least one known shape is
\* normalised, to the value of the highest-priority shape it has; the
\* normaliser fails only on a payload with none. For the image converter
\* and for the mask extraction.
C24_KnownShapeNormalizes ==
  \A r \in SeqReqs :
    Normalized(r) =>
      LET f == req[r].feature
          p == req[r].result
          ks == ShapesOf(f, p) IN
      ks # {} =>
        /\ Canonical(f, p).ok
        /\ Canonical(f, p).value =
             ShapeValue(f, p, KnownShapes(f)[CHOOSE k \in ks : \A j \in ks : k <= j])

\* the string s handed to a normaliser: a string payload, with its
\* data-URI prefix told from its text
AsStringPayload(s) ==
  LET ds == {d \in {"maskB", "imgI"} : s = DataUriPrefix \o d} IN
  IF ds # {} THEN Payload("string", TRUE, CHOOSE d \in ds : TRUE)
  ELSE Payload("string", FALSE, s)

\* request r's payload was normalised to a string
NormalizedOk(r) == Normalized(r) /\ Canonical(req[r].feature, req[r].result).ok

\* C25 as claimed: a normaliser returns a bare base64 string unchanged, and
\* returns the result of a normalisation unchanged.
C25_Idempotent ==
  \A r \in SeqReqs :
    NormalizedOk(r) =>
      LET f == req[r].feature
          v == Canonical(f, req[r].result).value IN
      Canonical(f, AsStringPayload(v)) = Ok(v)

\* C25, amended: a normaliser returns a bare base64 string unchanged; the
\* image converter returns any of its results unchanged; the mask extraction
\* returns its result unchanged when the result is bare base64, which it is
\* unless the payload's string began with the data-URI prefix twice.
C25_IdempotentOnBare ==
  \A r \in SeqReqs :
    NormalizedOk(r) =>
      LET f == req[r].feature
          p == req[r].result
          v == Canonical(f, p).value IN
      /\ (p.kind = "string" /\ ~p.uri) => Canonical(f, p) = Ok(p.data)
      /\ f = "image-generator" => Canonical(f, AsStringPayload(v)) = Ok(v)
      /\ (f = "background-remover" /\ ~AsStringPayload(v).uri)
           => Canonical(f, AsStringPayload(v)) = Ok(v)
      /\ (f = "background-remover" /\ AsStringPayload(v).uri)
           => (p.kind = "string" /\ p.uri /\ p.data = v)

\* a mask came as a string with its data-URI prefix and was extracted to
\* the bare base64 behind it
C25_Witness ==
  \E r \in SeqReqs :
    /\ NormalizedOk(r)
    /\ req[r].feature = "background-remover"
    /\ req[r].result = Payload("string", TRUE, "maskB")
    /\ ExtractMask(req[r].result) = Ok("maskB")
    /\ ExtractMask(AsStringPayload("maskB")) = Ok("maskB")

\* the first instants of the UTC days of the model's time line
DayStarts == {StartOfDay(t) : t \in 0..MaxNow}

\* the rows of user u for feature f created within the UTC day starting at d
RecordsOfDay(u, f, d) ==
  Cardinality({i \in DOMAIN history :
                 /\ history[i].userId = u
                 /\ history[i].feature = f
                 /\ StartOfDay(history[i].createdAt) = d})

\* C26: requests that do not overlap, of a user who stays non-premium: the
\* user's records for one feature created within one UTC day never number
\* more than the feature's limit.
C26_DailyRecordsWithinLimit ==
  LET mine == {i \in DOMAIN history : history[i].userId = "u1"} IN
  \A f \in Features :
    LET rows == {i \in mine : history[i].feature = f} IN
    \A d \in DayStarts :
      Cardinality({i \in rows : StartOfDay(history[i].createdAt) = d})
        <= FREE_LIMITS[f]

\* a request admitted at one below the limit has created the record that
\* fills the day's quota
C26_Witness ==
  \E r \in SeqReqs :
    /\ req[r].userId = "u1"
    /\ req[r].status = 200
    /\ req[r].count = FREE_LIMITS[req[r].feature] - 1
    /\ req[r].created # <<>>
    /\ \E d \in DayStarts :
         RecordsOfDay("u1", req[r].feature, d) = FREE_LIMITS[req[r].feature]

\* request r is in its fallback loop, awaiting a candidate's race
InLoop(r) == req[r].pc = "race"

\* request r has its response
Responded(r) == req[r].pc = "done"

\* the write of a record that was sent is answered in the end
WriteSettles == \A r \in SeqReqs : WF_vars(CreateRecord(r) \/ CreateFails(r))

\* no request is answered twice and no loop makes more attempts than its
\* feature has candidates
C27_AtMostOnce ==
  /\ [](\A r \in SeqReqs :
          req[r].feature \in Features =>
            Len(req[r].attempts) <= Len(Models(req[r].feature)))
  /\ [][\A r \in SeqReqs :
          Responded(r) => (req'[r] = req[r] \/ req'[r] = IdleReq)]_vars

\* C27 as claimed: timers that fire are enough for every request that passed
\* the quota check to get exactly one response, after at most as many
\* attempts as its feature has candidates.
C27_OneResponse ==
  /\ C27_AtMostOnce
  /\ \A r \in SeqReqs : (InLoop(r) \/ req[r].pc = "create") ~> Responded(r)

\* C27, amended: a request that passed the quota check is never answered
\* twice and makes at most as many attempts as its feature has candidates;
\* with timers that fire it leaves its loop, answered or awaiting the write
\* of its record; it is answered in the step in which that write settles,
\* and so gets exactly one response when the write settles too.
C27_OneResponseIfWriteSettles ==
  /\ C27_AtMostOnce
  /\ \A r \in SeqReqs : InLoop(r) ~> (Responded(r) \/ req[r].pc = "create")
  /\ [][\A r \in SeqReqs :
          (req[r].pc = "create" /\ req'[r] # req[r]) => Responded(r)']_vars
  /\ WriteSettles =>
       \A r \in SeqReqs : (InLoop(r) \/ req[r].pc = "create") ~> Responded(r)

\* every candidate of an image request ran into its timer and the request
\* was answered 500 after the last of them
C27_Witness ==
  \E r \in SeqReqs :
    /\ Responded(r)
    /\ req[r].feature = "image-generator"
    /\ req[r].status = 500
    /\ Len(req[r].attempts) = Len(ImageModels)
    /\ \A i \in DOMAIN req[r].outcomes : req[r].outcomes[i].kind = "timeout"

\* the quota check of a request of user u on feature f whose middleware
\* read startOfDay as since and counts in the current state would answer 429
WouldDeny(u, f, since) ==
  QuotaDenied(CountSince(history, u, f, since), LimitOf(f))

\* C28: the usage query and the quota check agree. The usage query takes a
\* user for premium exactly when the middleware lets that user's row pass
\* unchecked, and then reports unlimited; otherwise, for every feature, it
\* reports remaining = 0 exactly when the quota check reading the same day
\* and the same table would deny, and remaining > 0 exactly when it would
\* admit.
C28_UsageAgreesWithQuota ==
  [][ /\ (qry.pc = "findUser" /\ qry'.pc = "counts")
        => (qry'.isPremium <=> PremiumBypass(users[qry.userId]))
      /\ (qry.pc = "counts" /\ qry'.pc = "done")
        => \A f \in UsageFeatures :
             IF qry.isPremium
             THEN qry'.remaining[f] = Unlimited /\ qry'.limits[f] = Unlimited
             ELSE /\ ~qry'.remaining[f].unlimited
                  /\ qry'.remaining[f].n = 0 <=> WouldDeny(qry.userId, f, qry.startOfDay)
                  /\ qry'.remaining[f].n > 0 <=> ~WouldDeny(qry.userId, f, qry.startOfDay)
    ]_vars

\* a free user was told that nothing remains for image generation, with
\* exactly the limit used, and that something remains for another feature
C28_Witness ==
  /\ UsageReported
  /\ qry.used["image-generator"] = FREE_LIMITS["image-generator"]
  /\ qry.remaining["image-generator"] = Amount(0)
  /\ \E f \in UsageFeatures : qry.remaining[f].n > 0

\* C29: quota accounting is isolated per user and per feature. A step that
\* writes a record of a user and a feature leaves, for every other pair of
\* user and feature and every day, the count the quota check reads and the
\* outcome of the check as they were.
C29_QuotaIsolated ==
  [][history' # history =>
       LET new == history'[Len(history')] IN
       /\ history' = Append(history, new)
       /\ \A u \in Users, f \in Features, d \in DayStarts :
            (new.userId # u \/ new.feature # f) =>
              /\ CountSince(history', u, f, d) = CountSince(history, u, f, d)
              /\ WouldDeny(u, f, d)' <=> WouldDeny(u, f, d)
    ]_vars

\* u1 stands at the limit for background removal, one record of it written
\* by a request of this run, and is admitted to image generation at one
\* below the limit
C29_Witness ==
  \E r \in SeqReqs :
    /\ req[r].userId = "u1"
    /\ req[r].feature = "image-generator"
    /\ req[r].count = FREE_LIMITS["image-generator"] - 1
    /\ req[r].pc \in {"race", "create"}
    /\ WouldDeny("u1", "background-remover", StartOfDay(now))
    /\ CountSince(history, "u1", "background-remover", 0)
         = CountSince(history, "u1", "image-generator", 0) + 1

\* the step is requireAuth's upsert for user u, of a request or of a query
Authenticates(u) ==
  \/ \E r \in DOMAIN req :
       req[r].pc = "auth" /\ req'[r].pc # "auth" /\ req[r].token /\ req[r].userId = u
  \/ qry.pc = "auth" /\ qry'.pc # "auth" /\ qry.token /\ qry.userId = u

\* C31: authentication never changes premium status. requireAuth creates the
\* row of an unknown user non-premium and without subscription, leaves
\* isPremium and the stored subscription id of an existing user as they
\* were, and touches no other user's row.
C31_AuthKeepsPremium ==
  [][\A u \in Users :
       Authenticates(u) =>
         /\ users'[u].exists
         /\ users'[u].email = TokenEmail(u)
         /\ IF users[u].exists
            THEN /\ users'[u].isPremium = users[u].isPremium
                 /\ users'[u].stripeId = users[u].stripeId
            ELSE /\ ~users'[u].isPremium
                 /\ users'[u].stripeId = NoSubscription
         /\ \A o \in Users \ {u} : users'[o] = users[o]
    ]_vars

\* the premium user u2 has signed in, which brought the row's e-mail address
\* up to date and left the subscription in place; u1's row still carries
\* the old address
C31_Witness ==
  /\ qry.userId = "u2"
  /\ qry.pc \in {"findUser", "counts", "done"}
  /\ qry.token
  /\ users["u2"].isPremium
  /\ users["u2"].stripeId = 3
  /\ users["u2"].email = EmailOf("u2")
  /\ users["u1"].exists
  /\ users["u1"].email = StaleEmail("u1")

\* the history query has answered with a page of a size within 1..50
PageAnswered ==
  qry.kind = "history" /\ qry.pc = "done" /\ qry.status = 200 /\ qry.limit >= 1

\* the rows of the user listed behind the last row of the answered page
\* (the table does not change while pages are fetched, and no two of its
\* rows share a timestamp)
BehindPage ==
  LET listing == CHOOSE l \in OrderedByCreatedAtDesc(RowsOf(history, qry.userId)) : TRUE
      n == Len(qry.page) IN
  IF n = 0 THEN {}
  ELSE {i \in 1..Len(listing) :
          \E k \in 1..Len(listing) : listing[k].id = qry.page[n] /\ i > k}

\* the page a client gets when it asks again with nextCursor
FollowingPage ==
  LET listing == CHOOSE l \in OrderedByCreatedAtDesc(RowsOf(history, qry.userId)) : TRUE IN
  IF qry.nextCursor = NoCursor THEN <<>>
  ELSE PageOf(listing, qry.nextCursor, qry.limit)

\* C32 as claimed, for the page sizes within 1..50: hasNextPage is true
\* exactly when the user has a record behind the last one of the page, that
\* is, exactly when asking again with nextCursor gives a page that is not
\* empty.
C32_HasNextPage ==
  PageAnswered =>
    /\ qry.hasNextPage <=> BehindPage # {}
    /\ qry.hasNextPage <=> FollowingPage # <<>>

====
